---- MODULE Spec2Model ----
(***************************************************************************)
(* Workers AI plugin for Genkit: the translation layer between Genkit's    *)
(* canonical messages / tool requests and the Workers AI wire format.      *)
(*                                                                         *)
(* Two variants of the adapter live in the repository:                     *)
(*   - the client-library variant (toClientMessages, toClientTools,        *)
(*     toGenkitToolRequestParts, generate over client.ChatWithTools);      *)
(*   - the HTTP variant (go/plugins/workersai/workersai.go: generate over  *)
(*     net/http, buildPrompt, supportsChatFormat).                         *)
(* JSON texts are sequences of tokens; json.Marshal and json.Unmarshal are *)
(* a printer and a recursive-descent parser over them.                     *)
(***************************************************************************)
EXTENDS Integers, Sequences, FiniteSets, TLC

VARIABLES
    provider,          \* what the provider serialised for each tool call
    calls,             \* []client.ToolCall handed to toGenkitToolRequestParts
    toolRequestParts,  \* parts returned by toGenkitToolRequestParts
    err,               \* error returned by toGenkitToolRequestParts
    renormalized,      \* simplifyArguments applied to the re-encoded input of each part
    dpc,               \* position of the decode harness
    messages,          \* []*ai.Message handed to toClientMessages
    clientMsgs,        \* []client.Message returned by toClientMessages
    cerr,              \* error returned by toClientMessages
    redecoded,         \* toGenkitToolRequestParts on the tool calls of each emitted assistant message
    epc,               \* position of the encode harness
    tools,             \* input.Tools of the generate call
    sent,              \* arguments of the ChatWithTools calls made so far
    reply,             \* what ChatWithTools returned
    modelResponse,     \* *ai.ModelResponse returned by generate
    gerr,              \* error returned by generate
    gpc,               \* position of the generate call
    gen,               \* the generator's configuration
    cb,                \* whether the caller supplied a streaming callback
    chunks,            \* chunks delivered to the callback
    ctx,               \* the caller's context: "live" or "canceled"
    decodes,           \* how many times generate decoded the reply
    tpc,               \* position of each concurrent generate call
    tin,               \* input of each concurrent generate call
    treply,            \* what the transport returned to each concurrent call
    tout,              \* what each concurrent generate call returned
    tsent,             \* requests the shared transport handle has received
    mu,                \* holder of the plugin's mutex, or Nil
    initted,           \* WorkersAI.initted
    plugin,            \* the other fields of the WorkersAI value
    registry,          \* models registered with Genkit
    ppc,               \* position of each caller of Init or DefineModel
    pres               \* what each of those calls returned

decodeVars == <<provider, calls, toolRequestParts, err, renormalized, dpc>>
encodeVars == <<messages, clientMsgs, cerr, redecoded, epc>>
generateVars == <<tools, sent, reply, modelResponse, gerr, gpc, gen, cb, chunks, ctx, decodes>>
turnsVars == <<tpc, tin, treply, tout, tsent>>
pluginVars == <<mu, initted, plugin, registry, ppc, pres>>
vars == <<decodeVars, encodeVars, generateVars, turnsVars, pluginVars>>

(***************************************************************************)
(* Bounds                                                                  *)
(***************************************************************************)
MaxCalls == 2
MaxDepth == 2
MaxParts == 2
MaxMsgs == 2
MaxCallers == 2
MaxProcs == 2

(***************************************************************************)
(* Go values that travel through encoding/json                             *)
(***************************************************************************)
Null == [k |-> "null"]
Str(s) == [k |-> "str", v |-> s]
Num(s, g) == [k |-> "num", v |-> s, go |-> g]
Obj(m) == [k |-> "obj", m |-> m]
Chan == [k |-> "chan"]

EmptyMap == [x \in {} |-> Null]

Nil == [kind |-> "nil"]

\* A []*ai.ToolDefinition: nil, or a slice with its elements.
NilDefs == [isNil |-> TRUE, items |-> <<>>]
Defs(items) == [isNil |-> FALSE, items |-> items]

\* Keys in the byte order json.Marshal sorts map keys by.
KeyOrder == <<"type", "value", "x", "y">>

SortedKeys(S) == SelectSeq(KeyOrder, LAMBDA key : key \in S)

IsObject(v) == v.k = "obj"

RECURSIVE Encodable(_)
Encodable(v) ==
    CASE v.k = "chan" -> FALSE
      [] v.k = "obj" -> \A key \in DOMAIN v.m : Encodable(v.m[key])
      [] OTHER -> TRUE

\* JSON tokens
LBrace == [t |-> "{"]
RBrace == [t |-> "}"]
Colon == [t |-> ":"]
Comma == [t |-> ","]
StrTok(s) == [t |-> "str", v |-> s]
NumTok(s) == [t |-> "num", v |-> s]
NullTok == [t |-> "null"]

RECURSIVE MarshalText(_)
RECURSIVE MarshalMembers(_, _)
MarshalText(v) ==
    CASE v.k = "null" -> <<NullTok>>
      [] v.k = "str" -> <<StrTok(v.v)>>
      [] v.k = "num" -> <<NumTok(v.v)>>
      [] v.k = "obj" -> <<LBrace>> \o MarshalMembers(v.m, SortedKeys(DOMAIN v.m)) \o <<RBrace>>

MarshalMembers(m, ks) ==
    IF ks = <<>> THEN <<>>
    ELSE <<StrTok(Head(ks)), Colon>> \o MarshalText(m[Head(ks)])
         \o (IF Len(ks) > 1 THEN <<Comma>> ELSE <<>>)
         \o MarshalMembers(m, Tail(ks))

\* json.Marshal(v): the text, or failure on a value JSON cannot represent.
jsonMarshal(v) ==
    IF Encodable(v) THEN [ok |-> TRUE, text |-> MarshalText(v)]
    ELSE [ok |-> FALSE, text |-> <<>>]

ParseFail == [ok |-> FALSE, v |-> Null, n |-> 0]

RECURSIVE ParseValue(_, _)
RECURSIVE ParseMembers(_, _, _)
\* Parses one JSON value starting at token i; n is the index after it.
ParseValue(toks, i) ==
    IF i > Len(toks) THEN ParseFail
    ELSE CASE toks[i].t = "null" -> [ok |-> TRUE, v |-> Null, n |-> i + 1]
           [] toks[i].t = "str" -> [ok |-> TRUE, v |-> Str(toks[i].v), n |-> i + 1]
           [] toks[i].t = "num" -> [ok |-> TRUE, v |-> Num(toks[i].v, "float64"), n |-> i + 1]
           [] toks[i].t = "{" ->
                IF i + 1 <= Len(toks) /\ toks[i + 1].t = "}"
                THEN [ok |-> TRUE, v |-> Obj(EmptyMap), n |-> i + 2]
                ELSE ParseMembers(toks, i + 1, EmptyMap)
           [] OTHER -> ParseFail

\* Parses `"key": value` pairs from token i up to the closing brace; a later
\* duplicate of a key replaces the earlier one.
ParseMembers(toks, i, acc) ==
    IF i + 1 > Len(toks) \/ toks[i].t # "str" \/ toks[i + 1].t # ":" THEN ParseFail
    ELSE LET r == ParseValue(toks, i + 2)
             key == toks[i].v
             acc2 == [x \in DOMAIN acc \cup {key} |-> IF x = key THEN r.v ELSE acc[x]]
         IN  IF ~r.ok \/ r.n > Len(toks) THEN ParseFail
             ELSE CASE toks[r.n].t = "}" -> [ok |-> TRUE, v |-> Obj(acc2), n |-> r.n + 1]
                    [] toks[r.n].t = "," -> ParseMembers(toks, r.n + 1, acc2)
                    [] OTHER -> ParseFail

\* json.Unmarshal(text, &rawArgs) with rawArgs map[string]any: fails on a
\* syntax error and on a value that is neither an object nor null; null
\* leaves the map nil (no keys).
jsonUnmarshalMap(text) ==
    LET r == ParseValue(text, 1)
    IN  IF r.ok /\ r.n = Len(text) + 1 /\ r.v.k \in {"obj", "null"}
        THEN [ok |-> TRUE, m |-> IF r.v.k = "obj" THEN r.v.m ELSE EmptyMap]
        ELSE [ok |-> FALSE, m |-> EmptyMap]

(***************************************************************************)
(* ai.Part and client.ToolCall                                             *)
(***************************************************************************)
NewTextPart(text) == [kind |-> "text", Text |-> text]
NewToolRequestPart(tr) == [kind |-> "toolRequest", ToolRequest |-> tr]
NewToolResponsePart(tr) == [kind |-> "toolResponse", ToolResponse |-> tr]

\* Mutant: puts the function name where the call id belongs.
ToolCall_NameAsID(id, name, arguments) ==
    [ID |-> name, Type |-> "function", Function |-> [Name |-> name, Arguments |-> arguments]]

ToolCall(id, name, arguments) ==
    [ID |-> id, Type |-> "function", Function |-> [Name |-> name, Arguments |-> arguments]]

(***************************************************************************)
(* Decoding tool calls                                                     *)
(***************************************************************************)
HasValueMember(val) == IsObject(val) /\ "value" \in DOMAIN val.m

\* Mutant: unwraps only an argument that carries both `type` and `value`.
simplifiedArgs_NeedsType(rawArgs) ==
    [key \in DOMAIN rawArgs |->
        IF HasValueMember(rawArgs[key]) /\ "type" \in DOMAIN rawArgs[key].m
        THEN rawArgs[key].m["value"] ELSE rawArgs[key]]

\* The loop of toGenkitToolRequestParts that fills simplifiedArgs from rawArgs.
simplifiedArgs(rawArgs) ==
    [key \in DOMAIN rawArgs |->
        IF HasValueMember(rawArgs[key]) THEN rawArgs[key].m["value"] ELSE rawArgs[key]]

\* Mutant: takes the `value` member of every object without testing hasValue.
simplifyArguments_NoHasValue(argsJSON) ==
    LET u == jsonUnmarshalMap(argsJSON)
    IN  IF ~u.ok THEN [args |-> EmptyMap, err |-> [kind |-> "unmarshal", name |-> ""]]
        ELSE [args |-> [key \in DOMAIN u.m |->
                          IF IsObject(u.m[key])
                          THEN (IF "value" \in DOMAIN u.m[key].m
                                THEN u.m[key].m["value"] ELSE Null)
                          ELSE u.m[key]],
              err |-> Nil]

simplifyArguments(argsJSON) ==
    LET u == jsonUnmarshalMap(argsJSON)
    IN  IF ~u.ok THEN [args |-> EmptyMap, err |-> [kind |-> "unmarshal", name |-> ""]]
        ELSE [args |-> [key \in DOMAIN u.m |->
                          IF IsObject(u.m[key]) /\ "value" \in DOMAIN u.m[key].m
                          THEN u.m[key].m["value"] ELSE u.m[key]],
              err |-> Nil]

RECURSIVE ToolRequestLoop(_, _, _)
ToolRequestLoop(cs, i, acc) ==
    IF i > Len(cs) THEN [parts |-> acc, err |-> Nil]
    ELSE LET call == cs[i]
             u == jsonUnmarshalMap(call.Function.Arguments)
         IN  IF ~u.ok
             THEN [parts |-> <<>>, err |-> [kind |-> "unmarshal", name |-> call.Function.Name]]
             ELSE ToolRequestLoop(cs, i + 1,
                    Append(acc, NewToolRequestPart([Ref |-> call.ID,
                                                    Name |-> call.Function.Name,
                                                    Input |-> Obj(simplifiedArgs(u.m))])))

RECURSIVE ToolRequestLoop_Partial(_, _, _)
ToolRequestLoop_Partial(cs, i, acc) ==
    IF i > Len(cs) THEN [parts |-> acc, err |-> Nil]
    ELSE LET call == cs[i]
             u == jsonUnmarshalMap(call.Function.Arguments)
         IN  IF ~u.ok
             THEN [parts |-> acc, err |-> [kind |-> "unmarshal", name |-> call.Function.Name]]
             ELSE ToolRequestLoop_Partial(cs, i + 1,
                    Append(acc, NewToolRequestPart([Ref |-> call.ID,
                                                    Name |-> call.Function.Name,
                                                    Input |-> Obj(simplifiedArgs(u.m))])))

\* Mutant: on a malformed call returns the parts decoded before it.
toGenkitToolRequestParts_Partial(cs) == ToolRequestLoop_Partial(cs, 1, <<>>)

\* Mutant: builds the result by prepending, so the parts come out reversed.
toGenkitToolRequestParts_Prepend(cs) ==
    LET r == ToolRequestLoop(cs, 1, <<>>)
    IN  [parts |-> [i \in 1..Len(r.parts) |-> r.parts[Len(r.parts) + 1 - i]], err |-> r.err]

toGenkitToolRequestParts(cs) == ToolRequestLoop(cs, 1, <<>>)

(***************************************************************************)
(* Provider replies the decoder is run on                                  *)
(***************************************************************************)
ArgKeys == {"x", "y"}
CallIDs == {"a", "b"}
FunctionNames == {"f", "g"}
DecodedScalars == {Str("a"), Num("1", "float64"), Null}

RECURSIVE Nest(_)
Nest(d) ==
    IF d = 0 THEN DecodedScalars
    ELSE DecodedScalars
         \cup {Obj(EmptyMap), Obj([x \in {"type"} |-> Str("number")])}
         \cup {Obj([x \in {"value"} |-> v]) : v \in Nest(d - 1)}
         \cup {Obj([x \in {"type", "value"} |-> IF x = "type" THEN Str("number") ELSE v]) :
                 v \in Nest(d - 1)}

RawArgs(d) == UNION {[S -> Nest(d)] : S \in SUBSET ArgKeys}

SimpleArgs == [x \in {"x"} |-> Num("1", "float64")]
MixedArgs ==
    [x \in {"x", "y"} |->
        IF x = "x" THEN Obj([y \in {"type", "value"} |->
                               IF y = "type" THEN Str("number") ELSE Num("1", "float64")])
        ELSE Str("a")]

\* kind: "object" = a JSON object with its keys in sorted order, "reversed" =
\* the same object with its keys in the opposite order, "truncated" = the
\* object's text without its closing brace, "null" = the text null,
\* "number" = the text 1.
ProviderCall(id, name, kind, obj) == [ID |-> id, Name |-> name, kind |-> kind, obj |-> obj]

Reverse(seq) == [i \in 1..Len(seq) |-> seq[Len(seq) + 1 - i]]

ArgumentsText(p) ==
    LET text == MarshalText(Obj(p.obj))
    IN  CASE p.kind = "object" -> text
          [] p.kind = "reversed" ->
                <<LBrace>> \o MarshalMembers(p.obj, Reverse(SortedKeys(DOMAIN p.obj))) \o <<RBrace>>
          [] p.kind = "truncated" -> SubSeq(text, 1, Len(text) - 1)
          [] p.kind = "null" -> <<NullTok>>
          [] p.kind = "number" -> <<NumTok("1")>>

SmallProviderCalls ==
    {ProviderCall(id, name, "object", SimpleArgs) : id \in CallIDs, name \in FunctionNames}
    \cup {ProviderCall(id, name, "object", MixedArgs) : id \in CallIDs, name \in FunctionNames}
    \cup {ProviderCall(id, name, kind, SimpleArgs) :
            id \in CallIDs, name \in FunctionNames, kind \in {"truncated", "null", "number"}}

RichProviderCalls ==
    {ProviderCall("a", "f", kind, m) : kind \in {"object", "reversed"}, m \in RawArgs(MaxDepth)}

ProviderReplies ==
    {<<p>> : p \in RichProviderCalls}
    \cup UNION {[1..n -> SmallProviderCalls] : n \in 0..MaxCalls}

WireCalls(ps) == [i \in 1..Len(ps) |-> ToolCall(ps[i].ID, ps[i].Name, ArgumentsText(ps[i]))]

(***************************************************************************)
(* Decode harness: toGenkitToolRequestParts on a reply's tool calls, then  *)
(* simplifyArguments on the re-encoded input of every part it returned.    *)
(***************************************************************************)
DecodeIdle ==
    /\ provider = <<>>
    /\ calls = <<>>
    /\ toolRequestParts = <<>>
    /\ err = Nil
    /\ renormalized = <<>>
    /\ dpc = "idle"

EncodeIdle ==
    /\ messages = <<>>
    /\ clientMsgs = <<>>
    /\ cerr = Nil
    /\ redecoded = <<>>
    /\ epc = "idle"

GenerateIdle ==
    /\ tools = NilDefs
    /\ sent = <<>>
    /\ reply = Nil
    /\ modelResponse = Nil
    /\ gerr = Nil
    /\ gpc = "idle"
    /\ gen = Nil
    /\ cb = FALSE
    /\ chunks = <<>>
    /\ ctx = "live"
    /\ decodes = 0

TurnsIdle ==
    /\ tpc = <<>>
    /\ tin = <<>>
    /\ treply = <<>>
    /\ tout = <<>>
    /\ tsent = <<>>

PluginIdle ==
    /\ mu = Nil
    /\ initted = FALSE
    /\ plugin = Nil
    /\ registry = {}
    /\ ppc = <<>>
    /\ pres = <<>>

InitDecode ==
    /\ provider \in ProviderReplies
    /\ calls = WireCalls(provider)
    /\ toolRequestParts = <<>>
    /\ err = Nil
    /\ renormalized = <<>>
    /\ dpc = "start"
    /\ EncodeIdle
    /\ GenerateIdle
    /\ TurnsIdle
    /\ PluginIdle

Decode ==
    /\ dpc = "start"
    /\ LET r == toGenkitToolRequestParts(calls)
       IN  /\ toolRequestParts' = r.parts
           /\ err' = r.err
    /\ dpc' = "decoded"
    /\ UNCHANGED <<provider, calls, renormalized, encodeVars, generateVars>>
    /\ UNCHANGED <<turnsVars, pluginVars>>

Renormalize ==
    /\ dpc = "decoded"
    /\ err = Nil
    /\ renormalized' =
         [i \in 1..Len(toolRequestParts) |->
            simplifyArguments(jsonMarshal(toolRequestParts[i].ToolRequest.Input).text)]
    /\ dpc' = "done"
    /\ UNCHANGED <<provider, calls, toolRequestParts, err, encodeVars, generateVars>>
    /\ UNCHANGED <<turnsVars, pluginVars>>

NextDecode == Decode \/ Renormalize

SpecDecode == InitDecode /\ [][NextDecode]_vars

(***************************************************************************)
(* Properties of the decoder                                               *)
(***************************************************************************)
AllObjects == \A i \in 1..Len(provider) : provider[i].kind \in {"object", "reversed"}

\* C1: when every call's arguments string is a JSON object, decoding
\* succeeds and, for each call, the input of its tool request has exactly
\* the keys of that object; per key the value is the `value` member when the
\* raw value is an object with a member named `value`, and the raw value
\* itself otherwise.
C1_NormalizedInput ==
    (dpc \in {"decoded", "done"} /\ AllObjects) =>
        /\ err = Nil
        /\ Len(toolRequestParts) = Len(provider)
        /\ \A i \in 1..Len(provider) :
             LET raw == provider[i].obj
                 input == toolRequestParts[i].ToolRequest.Input
             IN  /\ input.k = "obj"
                 /\ DOMAIN input.m = DOMAIN raw
                 /\ \A key \in DOMAIN raw :
                      input.m[key] =
                        IF raw[key].k = "obj" /\ "value" \in DOMAIN raw[key].m
                        THEN raw[key].m["value"]
                        ELSE raw[key]

\* A decoded call that mixes a verbose key and a simple key.
C1_Witness ==
    /\ dpc \in {"decoded", "done"}
    /\ err = Nil
    /\ \E i \in 1..Len(provider) :
         /\ provider[i].kind = "reversed"
         /\ \E k1, k2 \in DOMAIN provider[i].obj :
              /\ provider[i].obj[k1].k = "obj"
              /\ DOMAIN provider[i].obj[k1].m = {"value"}
              /\ provider[i].obj[k2].k = "str"
              /\ toolRequestParts[i].ToolRequest.Input.m[k1] = provider[i].obj[k1].m["value"]
              /\ toolRequestParts[i].ToolRequest.Input.m[k2] = provider[i].obj[k2]

\* C2 (as claimed): normalizing the normalizer's own output yields that
\* output again, for every argument object.
C2_Idempotent ==
    dpc = "done" =>
        \A i \in 1..Len(toolRequestParts) :
            /\ renormalized[i].err = Nil
            /\ renormalized[i].args = toolRequestParts[i].ToolRequest.Input.m

\* C2 (amended): normalizing an argument map none of whose values is an
\* object with a member named `value` returns it unchanged; so the
\* normalizer's output is a fixed point whenever it is such a map.
C2_SimpleFixedPoint ==
    dpc = "done" =>
        \A i \in 1..Len(toolRequestParts) :
            LET m == toolRequestParts[i].ToolRequest.Input.m
            IN  (\A key \in DOMAIN m : ~(m[key].k = "obj" /\ "value" \in DOMAIN m[key].m)) =>
                    /\ renormalized[i].err = Nil
                    /\ renormalized[i].args = m

\* A normalized map that was unwrapped from a verbose argument, still holds
\* an object, and was normalized again.
C2_Witness ==
    /\ dpc = "done"
    /\ \E i \in 1..Len(toolRequestParts) :
         LET m == toolRequestParts[i].ToolRequest.Input.m
         IN  /\ \A key \in DOMAIN m : ~(m[key].k = "obj" /\ "value" \in DOMAIN m[key].m)
             /\ \E key \in DOMAIN m :
                  /\ m[key].k = "obj"
                  /\ provider[i].obj[key] # m[key]
             /\ renormalized[i].args = m

RoleUser == "user"
RoleModel == "model"
RoleSystem == "system"
RoleTool == "tool"

Message(role, content) == [Role |-> role, Content |-> content]

ChatMessage(role, content) == [type |-> "ChatMessage", Role |-> role, Content |-> content]
\* Content is a *string: new(string) is a non-nil pointer to "".
ResponseMessage(toolCalls) ==
    [type |-> "ResponseMessage", Role |-> "assistant", ToolCalls |-> toolCalls,
     Content |-> [isNil |-> FALSE, s |-> ""]]
ToolMessage(content, toolCallID) ==
    [type |-> "ToolMessage", Role |-> "tool", Content |-> content, ToolCallID |-> toolCallID]

\* ai.Message.Text(): the text of the message's text parts, concatenated.
RECURSIVE PartsText(_)
PartsText(parts) ==
    IF parts = <<>> THEN ""
    ELSE (IF Head(parts).kind = "text" THEN Head(parts).Text ELSE "") \o PartsText(Tail(parts))

MessageText(msg) == PartsText(msg.Content)

convertRole(role) ==
    CASE role = RoleUser -> "user"
      [] role = RoleModel -> "assistant"
      [] role = RoleSystem -> "system"
      [] role = RoleTool -> "tool"
      [] OTHER -> "user"

RECURSIVE ToolRoleLoop(_, _, _)
ToolRoleLoop(parts, i, acc) ==
    IF i > Len(parts) THEN [msgs |-> acc, err |-> Nil]
    ELSE IF parts[i].kind = "toolResponse"
         THEN LET outputBytes == jsonMarshal(parts[i].ToolResponse.Output)
              IN  IF ~outputBytes.ok
                  THEN [msgs |-> <<>>,
                        err |-> [kind |-> "marshalOutput", name |-> parts[i].ToolResponse.Name]]
                  ELSE ToolRoleLoop(parts, i + 1,
                         Append(acc, ToolMessage(outputBytes.text, parts[i].ToolResponse.Ref)))
         ELSE ToolRoleLoop(parts, i + 1, acc)

\* Mutant: emits the tool results of a message last part first.
toolRoleMessages_Reversed(msg) ==
    LET r == ToolRoleLoop(msg.Content, 1, <<>>)
    IN  [msgs |-> Reverse(r.msgs), err |-> r.err]

\* case ai.RoleTool
toolRoleMessages(msg) == ToolRoleLoop(msg.Content, 1, <<>>)

RECURSIVE ModelRoleLoop(_, _, _)
ModelRoleLoop(parts, i, toolCalls) ==
    IF i > Len(parts) THEN [toolCalls |-> toolCalls, err |-> Nil]
    ELSE IF parts[i].kind = "toolRequest"
         THEN LET argsBytes == jsonMarshal(parts[i].ToolRequest.Input)
              IN  IF ~argsBytes.ok
                  THEN [toolCalls |-> <<>>,
                        err |-> [kind |-> "marshalInput", name |-> parts[i].ToolRequest.Name]]
                  ELSE ModelRoleLoop(parts, i + 1,
                         Append(toolCalls, ToolCall(parts[i].ToolRequest.Ref,
                                                    parts[i].ToolRequest.Name,
                                                    argsBytes.text)))
         ELSE ModelRoleLoop(parts, i + 1, toolCalls)

\* Mutant: emits the text of a tool-calling turn as a second message.
modelRoleMessages_KeepsText(msg) ==
    LET r == ModelRoleLoop(msg.Content, 1, <<>>)
    IN  IF r.err # Nil THEN [msgs |-> <<>>, err |-> r.err]
        ELSE [msgs |-> (IF Len(r.toolCalls) > 0 THEN <<ResponseMessage(r.toolCalls)>> ELSE <<>>)
                       \o (IF MessageText(msg) # ""
                           THEN <<ChatMessage("assistant", MessageText(msg))>> ELSE <<>>),
              err |-> Nil]

\* Mutant: emits the assistant text message without testing that it is non-empty.
modelRoleMessages_EmitsEmpty(msg) ==
    LET r == ModelRoleLoop(msg.Content, 1, <<>>)
    IN  IF r.err # Nil THEN [msgs |-> <<>>, err |-> r.err]
        ELSE IF Len(r.toolCalls) > 0
             THEN [msgs |-> <<ResponseMessage(r.toolCalls)>>, err |-> Nil]
             ELSE [msgs |-> <<ChatMessage("assistant", MessageText(msg))>>, err |-> Nil]

\* case ai.RoleModel
modelRoleMessages(msg) ==
    LET r == ModelRoleLoop(msg.Content, 1, <<>>)
    IN  IF r.err # Nil THEN [msgs |-> <<>>, err |-> r.err]
        ELSE IF Len(r.toolCalls) > 0
             THEN [msgs |-> <<ResponseMessage(r.toolCalls)>>, err |-> Nil]
             ELSE IF MessageText(msg) # ""
                  THEN [msgs |-> <<ChatMessage("assistant", MessageText(msg))>>, err |-> Nil]
                  ELSE [msgs |-> <<>>, err |-> Nil]

\* case ai.RoleUser, ai.RoleSystem
userSystemMessages(msg) ==
    [msgs |-> <<ChatMessage(convertRole(msg.Role), MessageText(msg))>>, err |-> Nil]

\* The switch on msg.Role; it has no default case.
roleSwitch(msg) ==
    CASE msg.Role = RoleTool -> toolRoleMessages(msg)
      [] msg.Role = RoleModel -> modelRoleMessages(msg)
      [] msg.Role \in {RoleUser, RoleSystem} -> userSystemMessages(msg)
      [] OTHER -> [msgs |-> <<>>, err |-> Nil]

RECURSIVE ClientMessagesLoop(_, _, _)
ClientMessagesLoop(msgs, i, acc) ==
    IF i > Len(msgs) THEN [msgs |-> acc, err |-> Nil]
    ELSE LET r == roleSwitch(msgs[i])
         IN  IF r.err # Nil THEN [msgs |-> <<>>, err |-> r.err]
             ELSE ClientMessagesLoop(msgs, i + 1, acc \o r.msgs)

RECURSIVE ClientMessagesLoop_Partial(_, _, _)
ClientMessagesLoop_Partial(msgs, i, acc) ==
    IF i > Len(msgs) THEN [msgs |-> acc, err |-> Nil]
    ELSE LET r == roleSwitch(msgs[i])
         IN  IF r.err # Nil THEN [msgs |-> acc, err |-> r.err]
             ELSE ClientMessagesLoop_Partial(msgs, i + 1, acc \o r.msgs)

\* Mutant: on an encoding failure returns the wire messages built so far.
toClientMessages_Partial(msgs) == ClientMessagesLoop_Partial(msgs, 1, <<>>)

toClientMessages(msgs) == ClientMessagesLoop(msgs, 1, <<>>)

(***************************************************************************)
(* Histories the encoder is run on                                         *)
(***************************************************************************)
Roles == {RoleSystem, RoleUser, RoleModel, RoleTool, "custom"}
Texts == {"A", "B"}
RefNames == {<<"a", "f">>, <<"b", "g">>}

IntArgs == Obj([x \in {"x"} |-> Num("2", "int")])
ValueObjectArgs == Obj([x \in {"x"} |-> Obj([y \in {"value"} |-> Str("a")])])
ChanArgs == Obj([x \in {"x"} |-> Chan])
Inputs == {IntArgs, ValueObjectArgs, ChanArgs}
Outputs == {Obj([x \in {"x"} |-> Str("a")]), Str("r"), Num("2", "int"), Null, Chan}

Request(rn, input) == NewToolRequestPart([Ref |-> rn[1], Name |-> rn[2], Input |-> input])
Response(rn, output) == NewToolResponsePart([Ref |-> rn[1], Name |-> rn[2], Output |-> output])

PartPool ==
    {NewTextPart(t) : t \in Texts}
    \cup {Request(rn, input) : rn \in RefNames, input \in Inputs}
    \cup {Response(rn, output) : rn \in RefNames, output \in Outputs}

RichMessages ==
    {Message(role, content) :
        role \in Roles, content \in UNION {[1..n -> PartPool] : n \in 0..MaxParts}}

CallA == <<"a", "f">>
CallB == <<"b", "g">>
GoodOutput == Obj([x \in {"x"} |-> Str("a")])

CuratedMessages ==
    { Message(RoleUser, <<NewTextPart("A")>>),
      Message(RoleUser, <<>>),
      Message(RoleSystem, <<NewTextPart("B")>>),
      Message(RoleModel, <<NewTextPart("A")>>),
      Message(RoleModel, <<NewTextPart("A"), Request(CallA, IntArgs)>>),
      Message(RoleModel, <<Request(CallA, IntArgs), Request(CallB, ValueObjectArgs)>>),
      Message(RoleModel, <<Request(CallB, ChanArgs)>>),
      Message(RoleTool, <<Response(CallA, GoodOutput), Response(CallB, GoodOutput)>>),
      Message(RoleTool, <<Response(CallB, GoodOutput), Response(CallA, GoodOutput)>>),
      Message(RoleTool, <<Response(CallB, GoodOutput)>>),
      Message(RoleTool, <<NewTextPart("A"), Response(CallB, Str("r")),
                          Request(CallA, IntArgs), Response(CallA, Null)>>),
      Message(RoleTool, <<Response(CallA, Chan)>>),
      Message("custom", <<NewTextPart("A")>>) }

Histories ==
    {<<m>> : m \in RichMessages}
    \cup UNION {[1..n -> CuratedMessages] : n \in 0..MaxMsgs}

(***************************************************************************)
(* Encode harness: toClientMessages on a history, then                     *)
(* toGenkitToolRequestParts on the tool calls of every assistant message   *)
(* it emitted.                                                             *)
(***************************************************************************)
AssistantCallMsgs == SelectSeq(clientMsgs, LAMBDA m : m.type = "ResponseMessage")

InitEncode ==
    /\ messages \in Histories
    /\ clientMsgs = <<>>
    /\ cerr = Nil
    /\ redecoded = <<>>
    /\ epc = "start"
    /\ DecodeIdle
    /\ GenerateIdle
    /\ TurnsIdle
    /\ PluginIdle

Encode ==
    /\ epc = "start"
    /\ LET r == toClientMessages(messages)
       IN  /\ clientMsgs' = r.msgs
           /\ cerr' = r.err
    /\ epc' = "encoded"
    /\ UNCHANGED <<messages, redecoded, decodeVars, generateVars>>
    /\ UNCHANGED <<turnsVars, pluginVars>>

RoundTrip ==
    /\ epc = "encoded"
    /\ cerr = Nil
    /\ redecoded' = [j \in 1..Len(AssistantCallMsgs) |->
                        toGenkitToolRequestParts(AssistantCallMsgs[j].ToolCalls)]
    /\ epc' = "done"
    /\ UNCHANGED <<messages, clientMsgs, cerr, decodeVars, generateVars>>
    /\ UNCHANGED <<turnsVars, pluginVars>>

NextEncode == Encode \/ RoundTrip

SpecEncode == InitEncode /\ [][NextEncode]_vars

(***************************************************************************)
(* Properties of the encoder                                               *)
(***************************************************************************)
Encoded == epc \in {"encoded", "done"}

HasToolRequest(msg) == \E i \in 1..Len(msg.Content) : msg.Content[i].kind = "toolRequest"
ToolRequestsOf(msg) == SelectSeq(msg.Content, LAMBDA part : part.kind = "toolRequest")

\* Model turns that carry at least one tool request, in history order.
ToolTurns == SelectSeq(messages, LAMBDA m : m.Role = RoleModel /\ HasToolRequest(m))
\* Model turns without a tool request whose text is non-empty.
TextTurns ==
    SelectSeq(messages, LAMBDA m : m.Role = RoleModel /\ ~HasToolRequest(m) /\ MessageText(m) # "")
AssistantChats ==
    SelectSeq(clientMsgs, LAMBDA m : m.type = "ChatMessage" /\ m.Role = "assistant")
ToolResults == SelectSeq(clientMsgs, LAMBDA m : m.type = "ToolMessage")

\* The tool-response parts of the tool-role messages, in history order.
RECURSIVE ToolResponsesOf(_)
ToolResponsesOf(msgs) ==
    IF msgs = <<>> THEN <<>>
    ELSE (IF Head(msgs).Role = RoleTool
          THEN SelectSeq(Head(msgs).Content, LAMBDA part : part.kind = "toolResponse")
          ELSE <<>>) \o ToolResponsesOf(Tail(msgs))

\* A Go value as encoding/json reads it back: every number is a float64.
RECURSIVE AsDecoded(_)
AsDecoded(v) ==
    CASE v.k = "num" -> Num(v.v, "float64")
      [] v.k = "obj" -> Obj([key \in DOMAIN v.m |-> AsDecoded(v.m[key])])
      [] OTHER -> v

C7_UnknownRoleAsUser ==
    (Encoded /\ cerr = Nil) =>
        \A i \in 1..Len(messages) :
            (messages[i].Role \notin {RoleSystem, RoleUser, RoleModel, RoleTool}
             /\ MessageText(messages[i]) # "") =>
                \E n \in 1..Len(clientMsgs) :
                    clientMsgs[n] = ChatMessage("user", MessageText(messages[i]))

\* C8 (as claimed): each system or user message with non-empty text is
\* emitted as exactly one chat message carrying the concatenated text, and a
\* system or user message with empty text emits nothing.
C8_NoEmptyChat ==
    (Encoded /\ cerr = Nil) =>
        LET chats == SelectSeq(clientMsgs,
                        LAMBDA m : m.type = "ChatMessage" /\ m.Role \in {"user", "system"})
            turns == SelectSeq(messages,
                        LAMBDA m : m.Role \in {RoleUser, RoleSystem} /\ MessageText(m) # "")
        IN  /\ Len(chats) = Len(turns)
            /\ \A j \in 1..Len(chats) : chats[j].Content # ""

C10_AssistantText ==
    (Encoded /\ cerr = Nil) =>
        /\ Len(AssistantChats) = Len(TextTurns)
        /\ \A j \in 1..Len(TextTurns) :
             AssistantChats[j] = ChatMessage("assistant", MessageText(TextTurns[j]))
        /\ (Len(messages) = 1 /\ messages[1].Role = RoleModel /\ ~HasToolRequest(messages[1])) =>
             Len(clientMsgs) = (IF MessageText(messages[1]) = "" THEN 0 ELSE 1)

\* A model message with two text parts was encoded as their concatenation.
C10_Witness ==
    /\ Encoded
    /\ messages = <<Message(RoleModel, <<NewTextPart("A"), NewTextPart("B")>>)>>
    /\ clientMsgs = <<ChatMessage("assistant", "AB")>>

\* The wire messages of each message of the history encoded on its own.
PerMessage == [i \in 1..Len(messages) |-> toClientMessages(<<messages[i]>>).msgs]

RECURSIVE Flatten(_)
Flatten(seqs) == IF seqs = <<>> THEN <<>> ELSE Head(seqs) \o Flatten(Tail(seqs))

Wrap(cause, message) == [kind |-> "wrapped", message |-> message, cause |-> cause]

ToolDefinition(name, schema) ==
    [Name |-> name, Description |-> "d", InputSchema |-> schema]

\* A nil []client.Tool.
NilTools == [isNil |-> TRUE, items |-> <<>>]

\* json.Unmarshal(schemaBytes, &params) into client.FunctionParameters: the
\* schema's "type" has to be a JSON string.
unmarshalParameters(text) ==
    LET u == jsonUnmarshalMap(text)
    IN  IF u.ok /\ ("type" \in DOMAIN u.m => u.m["type"].k = "str")
        THEN [ok |-> TRUE,
              params |-> [Type |-> IF "type" \in DOMAIN u.m THEN u.m["type"].v ELSE ""]]
        ELSE [ok |-> FALSE, params |-> [Type |-> ""]]

RECURSIVE ClientToolsLoop(_, _, _)
ClientToolsLoop(defs, i, acc) ==
    IF i > Len(defs) THEN [tools |-> [isNil |-> FALSE, items |-> acc], err |-> Nil]
    ELSE LET def == defs[i]
             schemaBytes == jsonMarshal(def.InputSchema)
             parsed == unmarshalParameters(schemaBytes.text)
             params == IF def.InputSchema # Null THEN parsed.params ELSE [Type |-> ""]
         IN  IF def.InputSchema # Null /\ ~schemaBytes.ok
             THEN [tools |-> NilTools,
                   err |-> Wrap([kind |-> "marshal"], <<"failed to marshal schema for tool", def.Name>>)]
             ELSE IF def.InputSchema # Null /\ ~parsed.ok
             THEN [tools |-> NilTools,
                   err |-> Wrap([kind |-> "unmarshal"], <<"failed to unmarshal schema for tool", def.Name>>)]
             ELSE ClientToolsLoop(defs, i + 1,
                    Append(acc, [Type |-> "function",
                                 Function |-> [Name |-> def.Name,
                                               Description |-> def.Description,
                                               Parameters |-> params]]))

\* Mutant: runs the loop on an empty list too and returns the empty slice.
toClientTools_EmptySlice(defs) ==
    ClientToolsLoop(defs.items, 1, <<>>)

toClientTools(defs) ==
    IF Len(defs.items) = 0 THEN [tools |-> NilTools, err |-> Nil]
    ELSE ClientToolsLoop(defs.items, 1, <<>>)

\* The generator defineModel builds: the model name and the shared client.
Generator == [model |-> <<"q", "w", "e", "n">>, client |-> "client"]

\* Which generate method a generator value has: the one over *client.Client
\* or the one over *http.Client.
IsClientGenerator(g) == g.client = "client"
IsHTTPGenerator(g) == g.client = "httpClient"

(***************************************************************************)
(* Requests handed to generate and replies of client.ChatWithTools         *)
(***************************************************************************)
ObjectSchema == Obj([x \in {"type"} |-> Str("object")])
NumberTypeSchema == Obj([x \in {"type"} |-> Num("1", "int")])
ChanSchema == Obj([x \in {"x"} |-> Chan])

ToolSets ==
    { NilDefs,
      Defs(<<>>),
      Defs(<<ToolDefinition("f", ObjectSchema)>>),
      Defs(<<ToolDefinition("f", Null), ToolDefinition("g", ObjectSchema)>>),
      Defs(<<ToolDefinition("f", ChanSchema)>>),
      Defs(<<ToolDefinition("g", NumberTypeSchema)>>) }

GenerateHistories ==
    { <<Message(RoleUser, <<NewTextPart("A")>>)>>,
      <<Message(RoleModel, <<Request(CallA, IntArgs)>>),
        Message(RoleTool, <<Response(CallA, GoodOutput)>>)>>,
      <<Message(RoleTool, <<Response(CallA, Chan)>>)>>,
      <<Message(RoleUser, <<NewTextPart("A")>>),
        Message(RoleTool, <<Response(CallA, GoodOutput), Response(CallB, Chan)>>)>> }

Usage(prompt, completion) == [PromptTokens |-> prompt, CompletionTokens |-> completion]

ProviderErrors ==
    { <<>>,
      <<[Code |-> 1, Message |-> "e1"]>>,
      <<[Code |-> 1, Message |-> "e1"], [Code |-> 2, Message |-> "e2"]>> }

UsageReports ==
    { [legacy |-> Usage(0, 0), chat |-> Usage(0, 0)],
      [legacy |-> Usage(3, 5), chat |-> Usage(7, 11)] }

\* toolCalls is what the provider serialised; the reply carries its wire form.
Reply(success, errors, isLegacy, usage, toolCalls, content) ==
    [err |-> Nil,
     provider |-> toolCalls,
     resp |-> [Success |-> success,
               Errors |-> errors,
               IsLegacyResult |-> isLegacy,
               LegacyResponse |-> [Usage |-> usage.legacy],
               ChatCompletionResponse |-> [Usage |-> usage.chat],
               ToolCalls |-> WireCalls(toolCalls),
               Content |-> content]]

TransportFailure == [err |-> [kind |-> "transport"], provider |-> <<>>, resp |-> Nil]

Replies ==
    {TransportFailure}
    \cup {Reply(success, errors, isLegacy, usage, toolCalls, content) :
            success \in BOOLEAN, errors \in ProviderErrors, isLegacy \in BOOLEAN,
            usage \in UsageReports,
            toolCalls \in {<<>>, <<ProviderCall("a", "f", "object", SimpleArgs)>>},
            content \in {"", "Hello"}}
    \cup {Reply(TRUE, <<>>, FALSE, [legacy |-> Usage(3, 5), chat |-> Usage(7, 11)], toolCalls, "") :
            toolCalls \in UNION {[1..n -> SmallProviderCalls] : n \in 0..MaxCalls}}

InitGenerate ==
    /\ messages \in GenerateHistories
    /\ tools \in ToolSets
    /\ sent = <<>>
    /\ reply = Nil
    /\ modelResponse = Nil
    /\ gerr = Nil
    /\ gpc = "start"
    /\ gen = Generator
    /\ cb \in BOOLEAN
    /\ chunks = <<>>
    /\ ctx = "live"
    /\ decodes = 0
    /\ clientMsgs = <<>>
    /\ cerr = Nil
    /\ redecoded = <<>>
    /\ epc = "idle"
    /\ DecodeIdle
    /\ TurnsIdle
    /\ PluginIdle

input == [Messages |-> messages, Tools |-> tools]

\* Mutant: a generate that hands the request to the client before it tests
\* the error of the message conversion.
GenerateCall_SendsFirst ==
    /\ IsClientGenerator(gen)
    /\ gpc = "start"
    /\ LET t == toClientTools(input.Tools)
           m == toClientMessages(input.Messages)
       IN  IF t.err # Nil
           THEN /\ gerr' = Wrap(t.err, "failed to convert tools")
                /\ gpc' = "done"
                /\ UNCHANGED <<sent, clientMsgs, cerr>>
           ELSE /\ clientMsgs' = m.msgs
                /\ cerr' = m.err
                /\ sent' = Append(sent, [model |-> gen.model,
                                         messages |-> m.msgs,
                                         tools |-> t.tools])
                /\ IF m.err # Nil
                   THEN /\ gerr' = Wrap(m.err, "failed to convert messages")
                        /\ gpc' = "done"
                   ELSE /\ gpc' = "called"
                        /\ UNCHANGED gerr
    /\ UNCHANGED <<messages, tools, reply, modelResponse, redecoded, epc, decodeVars,
                   gen, cb, chunks, ctx, decodes>>
    /\ UNCHANGED <<turnsVars, pluginVars>>

\* generate up to the call of gen.client.ChatWithTools.
GenerateCall ==
    /\ IsClientGenerator(gen)
    /\ gpc = "start"
    /\ LET t == toClientTools(input.Tools)
           m == toClientMessages(input.Messages)
       IN  IF t.err # Nil
           THEN /\ gerr' = Wrap(t.err, "failed to convert tools")
                /\ gpc' = "done"
                /\ UNCHANGED <<sent, clientMsgs, cerr>>
           ELSE /\ clientMsgs' = m.msgs
                /\ cerr' = m.err
                /\ IF m.err # Nil
                   THEN /\ gerr' = Wrap(m.err, "failed to convert messages")
                        /\ gpc' = "done"
                        /\ UNCHANGED sent
                   ELSE /\ sent' = Append(sent, [model |-> gen.model,
                                                 messages |-> m.msgs,
                                                 tools |-> t.tools])
                        /\ gpc' = "called"
                        /\ UNCHANGED gerr
    /\ UNCHANGED <<messages, tools, reply, modelResponse, redecoded, epc, decodeVars,
                   gen, cb, chunks, ctx, decodes>>
    /\ UNCHANGED <<turnsVars, pluginVars>>

\* The client library performs the request and returns; generate hands it
\* no context, so what it returns does not depend on ctx.
ChatWithTools ==
    /\ IsClientGenerator(gen)
    /\ gpc = "called"
    /\ \E r \in Replies :
         /\ reply' = [err |-> r.err, resp |-> r.resp]
         /\ provider' = r.provider
    /\ gpc' = "replied"
    /\ UNCHANGED <<calls, toolRequestParts, err, renormalized, dpc, encodeVars,
                   tools, sent, modelResponse, gerr, gen, cb, chunks, ctx, decodes>>
    /\ UNCHANGED <<turnsVars, pluginVars>>

\* Mutant: a generate that gives an empty reply text no part.
GenerateReturn_NoEmptyPart ==
    /\ IsClientGenerator(gen)
    /\ gpc = "replied"
    /\ gpc' = "done"
    /\ decodes' = IF reply.err = Nil /\ reply.resp.Success THEN decodes + 1 ELSE decodes
    /\ IF reply.err # Nil
       THEN /\ gerr' = Wrap(reply.err, "workersai client failed")
            /\ UNCHANGED <<modelResponse, calls, toolRequestParts, err>>
       ELSE IF ~reply.resp.Success
       THEN /\ gerr' = [kind |-> "api", errors |-> reply.resp.Errors]
            /\ UNCHANGED <<modelResponse, calls, toolRequestParts, err>>
       ELSE LET resp == reply.resp
                usage == IF resp.IsLegacyResult
                         THEN [InputTokens |-> resp.LegacyResponse.Usage.PromptTokens,
                               OutputTokens |-> resp.LegacyResponse.Usage.CompletionTokens]
                         ELSE [InputTokens |-> resp.ChatCompletionResponse.Usage.PromptTokens,
                               OutputTokens |-> resp.ChatCompletionResponse.Usage.CompletionTokens]
                toolCalls == resp.ToolCalls
                r == toGenkitToolRequestParts(toolCalls)
            IN  /\ calls' = toolCalls
                /\ IF Len(toolCalls) > 0
                   THEN /\ toolRequestParts' = r.parts
                        /\ err' = r.err
                        /\ IF r.err # Nil
                           THEN /\ gerr' = r.err
                                /\ UNCHANGED modelResponse
                           ELSE /\ modelResponse' =
                                     [Request |-> input,
                                      Usage |-> usage,
                                      Message |-> Message(RoleModel, r.parts),
                                      FinishReason |-> "stop"]
                                /\ UNCHANGED gerr
                   ELSE /\ modelResponse' =
                             [Request |-> input,
                              Usage |-> usage,
                              Message |-> Message(RoleModel,
                                            IF resp.Content = "" THEN <<>>
                                            ELSE <<NewTextPart(resp.Content)>>),
                              FinishReason |-> "stop"]
                        /\ UNCHANGED <<gerr, toolRequestParts, err>>
    /\ UNCHANGED <<provider, renormalized, dpc, encodeVars, tools, sent, reply,
                   gen, cb, chunks, ctx>>
    /\ UNCHANGED <<turnsVars, pluginVars>>

\* generate from the return of ChatWithTools to its own return.
GenerateReturn ==
    /\ IsClientGenerator(gen)
    /\ gpc = "replied"
    /\ gpc' = "done"
    /\ decodes' = IF reply.err = Nil /\ reply.resp.Success THEN decodes + 1 ELSE decodes
    /\ IF reply.err # Nil
       THEN /\ gerr' = Wrap(reply.err, "workersai client failed")
            /\ UNCHANGED <<modelResponse, calls, toolRequestParts, err>>
       ELSE IF ~reply.resp.Success
       THEN /\ gerr' = [kind |-> "api", errors |-> reply.resp.Errors]
            /\ UNCHANGED <<modelResponse, calls, toolRequestParts, err>>
       ELSE LET resp == reply.resp
                usage == IF resp.IsLegacyResult
                         THEN [InputTokens |-> resp.LegacyResponse.Usage.PromptTokens,
                               OutputTokens |-> resp.LegacyResponse.Usage.CompletionTokens]
                         ELSE [InputTokens |-> resp.ChatCompletionResponse.Usage.PromptTokens,
                               OutputTokens |-> resp.ChatCompletionResponse.Usage.CompletionTokens]
                toolCalls == resp.ToolCalls
                r == toGenkitToolRequestParts(toolCalls)
            IN  /\ calls' = toolCalls
                /\ IF Len(toolCalls) > 0
                   THEN /\ toolRequestParts' = r.parts
                        /\ err' = r.err
                        /\ IF r.err # Nil
                           THEN /\ gerr' = r.err
                                /\ UNCHANGED modelResponse
                           ELSE /\ modelResponse' =
                                     [Request |-> input,
                                      Usage |-> usage,
                                      Message |-> Message(RoleModel, r.parts),
                                      FinishReason |-> "stop"]
                                /\ UNCHANGED gerr
                   ELSE /\ modelResponse' =
                             [Request |-> input,
                              Usage |-> usage,
                              Message |-> Message(RoleModel, <<NewTextPart(resp.Content)>>),
                              FinishReason |-> "stop"]
                        /\ UNCHANGED <<gerr, toolRequestParts, err>>
    /\ UNCHANGED <<provider, renormalized, dpc, encodeVars, tools, sent, reply,
                   gen, cb, chunks, ctx>>
    /\ UNCHANGED <<turnsVars, pluginVars>>

NextGenerate == GenerateCall \/ ChatWithTools \/ GenerateReturn

SpecGenerate == InitGenerate /\ [][NextGenerate]_vars

\* C3: when a call of the reply has an arguments string that is not valid
\* JSON, toGenkitToolRequestParts returns no parts and an error naming the
\* function of the first call whose arguments do not decode, and generate
\* returns that error and no response.
C3_AllOrNothing ==
    (gpc = "done" /\ reply # Nil /\ reply.err = Nil /\ reply.resp.Success
     /\ \E i \in 1..Len(provider) : provider[i].kind = "truncated") =>
        LET bad == {i \in 1..Len(provider) : provider[i].kind \in {"truncated", "number"}}
            first == CHOOSE i \in bad : \A j \in bad : i <= j
        IN  /\ toolRequestParts = <<>>
            /\ err.kind = "unmarshal"
            /\ err.name = calls[first].Function.Name
            /\ gerr = err
            /\ modelResponse = Nil

\* A reply whose second call is malformed, after a first one that decodes,
\* made generate fail.
C3_Witness ==
    /\ gpc = "done"
    /\ Len(provider) = 2
    /\ provider[1].kind = "object"
    /\ provider[2].kind = "truncated"
    /\ provider[1].Name # provider[2].Name
    /\ err.name = provider[2].Name
    /\ gerr # Nil

\* Tool definitions that toClientTools converts without error.
ConvertibleTools ==
    \A i \in 1..Len(tools.items) : tools.items[i].InputSchema \in {Null, ObjectSchema}

\* The tool-response parts of the history whose output JSON cannot represent.
UnencodableOutputs ==
    SelectSeq(ToolResponsesOf(messages), LAMBDA part : ~Encodable(part.ToolResponse.Output))

UnencodableInputs ==
    \E i \in 1..Len(messages) :
        /\ messages[i].Role = RoleModel
        /\ \E n \in 1..Len(messages[i].Content) :
              /\ messages[i].Content[n].kind = "toolRequest"
              /\ ~Encodable(messages[i].Content[n].ToolRequest.Input)

\* C12: when the output of a tool response cannot be encoded as JSON (and
\* the tools and the tool-request inputs can), toClientMessages returns an
\* error naming that response's tool and no wire message, and generate
\* returns that error wrapped, without calling the client and without a
\* response.
C12_OutputEncodingFails ==
    (IsClientGenerator(gen) /\ gpc = "done" /\ ConvertibleTools /\ ~UnencodableInputs
     /\ UnencodableOutputs # <<>>) =>
        /\ cerr = [kind |-> "marshalOutput", name |-> UnencodableOutputs[1].ToolResponse.Name]
        /\ clientMsgs = <<>>
        /\ gerr = Wrap(cerr, "failed to convert messages")
        /\ modelResponse = Nil
        /\ sent = <<>>

\* generate failed on a history whose second message holds an encodable
\* response followed by an unencodable one.
C12_Witness ==
    /\ gpc = "done"
    /\ Len(messages) = 2
    /\ messages[1].Role = RoleUser
    /\ messages[2] = Message(RoleTool, <<Response(CallA, GoodOutput), Response(CallB, Chan)>>)
    /\ cerr.name = "g"
    /\ gerr.cause = cerr

\* C13: with zero tool definitions, a nil list or an empty one, the
\* conversion of the tools does not fail and, when the history encodes, the
\* one call of the client is handed a nil tools slice, never an empty one.
C13_NoToolsValue ==
    (IsClientGenerator(gen) /\ gpc # "start" /\ Len(tools.items) = 0) =>
        /\ ~(gerr.kind = "wrapped" /\ gerr.message = "failed to convert tools")
        /\ cerr = Nil =>
             /\ Len(sent) = 1
             /\ sent[1].tools = NilTools

\* generate was given an empty, non-nil list of tool definitions and
\* returned a response.
C13_Witness ==
    /\ gpc = "done"
    /\ tools = Defs(<<>>)
    /\ Len(sent) = 1
    /\ sent[1].tools.isNil
    /\ modelResponse # Nil

(***************************************************************************)
(* generate (HTTP variant, go/plugins/workersai/workersai.go)              *)
(***************************************************************************)
\* strings.Contains on strings written as sequences of characters.
Contains(str, substr) ==
    \E i \in 0..(Len(str) - Len(substr)) : SubSeq(str, i + 1, i + Len(substr)) = substr

supportsChatFormat(model) ==
    \/ Contains(model, <<"l", "l", "a", "m", "a">>)
    \/ Contains(model, <<"m", "i", "s", "t", "r", "a", "l">>)
    \/ Contains(model, <<"q", "w", "e", "n">>)
    \/ Contains(model, <<"g", "e", "m", "m", "a">>)

\* convertRole of the HTTP variant: it has no case for ai.RoleTool.
httpConvertRole(role) ==
    CASE role = RoleUser -> "user"
      [] role = RoleModel -> "assistant"
      [] role = RoleSystem -> "system"
      [] OTHER -> "user"

RECURSIVE concatenateTextParts(_)
concatenateTextParts(parts) ==
    IF parts = <<>> THEN ""
    ELSE (IF Head(parts).kind = "text" THEN Head(parts).Text ELSE "")
         \o concatenateTextParts(Tail(parts))

\* The loop of generate that fills req.Messages.
RECURSIVE workersAIMessages(_)
workersAIMessages(msgs) ==
    IF msgs = <<>> THEN <<>>
    ELSE LET content == concatenateTextParts(Head(msgs).Content)
         IN  (IF content # ""
              THEN <<[Role |-> httpConvertRole(Head(msgs).Role), Content |-> content]>>
              ELSE <<>>) \o workersAIMessages(Tail(msgs))

\* Mutant: writes a line for a tool-role message too.
RECURSIVE buildPrompt_ToolLine(_)
buildPrompt_ToolLine(msgs) ==
    IF msgs = <<>> THEN ""
    ELSE LET content == concatenateTextParts(Head(msgs).Content)
             line == IF content = "" THEN ""
                     ELSE CASE Head(msgs).Role = RoleSystem -> "System: " \o content \o "\n"
                            [] Head(msgs).Role = RoleUser -> "User: " \o content \o "\n"
                            [] Head(msgs).Role = RoleModel -> "Assistant: " \o content \o "\n"
                            [] Head(msgs).Role = RoleTool -> "Tool: " \o content \o "\n"
                            [] OTHER -> ""
         IN  line \o buildPrompt_ToolLine(Tail(msgs))

RECURSIVE buildPrompt(_)
buildPrompt(msgs) ==
    IF msgs = <<>> THEN ""
    ELSE LET content == concatenateTextParts(Head(msgs).Content)
             line == IF content = "" THEN ""
                     ELSE CASE Head(msgs).Role = RoleSystem -> "System: " \o content \o "\n"
                            [] Head(msgs).Role = RoleUser -> "User: " \o content \o "\n"
                            [] Head(msgs).Role = RoleModel -> "Assistant: " \o content \o "\n"
                            [] OTHER -> ""
         IN  line \o buildPrompt(Tail(msgs))

\* http.StatusOK
StatusOK == 200

\* json.Unmarshal(body, &workerResp) into workersAIResponse: members of the
\* document that the struct does not declare (the result's tool calls and
\* usage) are dropped.
unmarshalWorkersAIResponse(body) ==
    IF ~body.json THEN [ok |-> FALSE, v |-> Nil]
    ELSE [ok |-> TRUE,
          v |-> [Success |-> body.value.success,
                 Result |-> [Response |-> body.value.result.response],
                 Errors |-> body.value.errors]]

\* Mutant: looks at the result's text first and at success only when the
\* text is empty.
handleResponse_TextFirst(resp, in) ==
    IF ~resp.body.readable
    THEN [response |-> Nil, err |-> Wrap([kind |-> "read"], "failed to read response body"),
          decodes |-> 0]
    ELSE LET u == unmarshalWorkersAIResponse(resp.body)
             workerResp == u.v
         IN  IF ~u.ok
             THEN [response |-> Nil, err |-> Wrap([kind |-> "syntax"], "failed to parse response"),
                   decodes |-> 1]
             ELSE IF workerResp.Result.Response = "" /\ ~workerResp.Success
             THEN [response |-> Nil,
                   err |-> [kind |-> "message", errMsg |-> "API request failed"],
                   decodes |-> 1]
             ELSE [response |-> [Request |-> in,
                                 FinishReason |-> "stop",
                                 Message |-> Message(RoleModel,
                                               <<NewTextPart(workerResp.Result.Response)>>),
                                 Usage |-> [InputTokens |-> 0, OutputTokens |-> 0]],
                   err |-> Nil,
                   decodes |-> 1]

\* decodes: the number of json.Unmarshal calls made on the body.
handleResponse(resp, in) ==
    IF ~resp.body.readable
    THEN [response |-> Nil, err |-> Wrap([kind |-> "read"], "failed to read response body"),
          decodes |-> 0]
    ELSE LET u == unmarshalWorkersAIResponse(resp.body)
             workerResp == u.v
         IN  IF ~u.ok
             THEN [response |-> Nil, err |-> Wrap([kind |-> "syntax"], "failed to parse response"),
                   decodes |-> 1]
             ELSE IF ~workerResp.Success
             THEN [response |-> Nil,
                   err |-> [kind |-> "message",
                            errMsg |-> IF Len(workerResp.Errors) > 0
                                       THEN workerResp.Errors[1].Message
                                       ELSE "API request failed"],
                   decodes |-> 1]
             ELSE [response |-> [Request |-> in,
                                 FinishReason |-> "stop",
                                 Message |-> Message(RoleModel,
                                               <<NewTextPart(workerResp.Result.Response)>>),
                                 Usage |-> [InputTokens |-> 0, OutputTokens |-> 0]],
                   err |-> Nil,
                   decodes |-> 1]

\* Mutant: decodes the body and also hands its text to the callback as a chunk.
handleStreamingResponse_Chunk(resp, callback, in) ==
    [result |-> handleResponse(resp, in),
     delivered |-> IF handleResponse(resp, in).err = Nil
                   THEN <<handleResponse(resp, in).response.Message>> ELSE <<>>]

\* result: what it returns; delivered: the chunks it passed to the callback.
handleStreamingResponse(resp, callback, in) ==
    [result |-> handleResponse(resp, in), delivered |-> <<>>]

(***************************************************************************)
(* Generators, histories and HTTP replies of the HTTP variant              *)
(***************************************************************************)
ModelLlama == <<"m", "/", "l", "l", "a", "m", "a", "3">>
ModelUpperLlama == <<"m", "/", "L", "l", "a", "m", "a", "3">>
ModelMistral == <<"m", "i", "s", "t", "r", "a", "l">>
ModelQwen == <<"q", "w", "e", "n", "3">>
ModelGemma == <<"g", "e", "m", "m", "a">>
ModelPhi == <<"p", "h", "i", "2">>
Models == {ModelLlama, ModelUpperLlama, ModelMistral, ModelQwen, ModelGemma, ModelPhi}

\* The generator DefineModel builds from the plugin's configuration.
HTTPGenerator(model, baseURL) ==
    [model |-> model, apiToken |-> "token", accountID |-> "account",
     baseURL |-> baseURL, client |-> "httpClient"]

DefaultBaseURL == "https://api.cloudflare.com/client/v4"
\* A base URL that net/url cannot parse.
InvalidBaseURL == "%zz"

HTTPContents ==
    { <<>>,
      <<NewTextPart("A")>>,
      <<Request(CallA, IntArgs), NewTextPart("A"), NewTextPart("B")>> }

HTTPMessages == {Message(role, content) : role \in Roles, content \in HTTPContents}

HTTPHistories == UNION {[1..n -> HTTPMessages] : n \in 0..MaxMsgs}

\* A reply body that is a JSON document of the Workers AI API: toolCalls and
\* usage are the result's tool_calls and usage members.
Body(success, errors, response, toolCalls, usage) ==
    [readable |-> TRUE, json |-> TRUE,
     value |-> [success |-> success, errors |-> errors,
                result |-> [response |-> response, tool_calls |-> toolCalls, usage |-> usage]]]

UnreadableBody == [readable |-> FALSE, json |-> FALSE, value |-> Nil]
MalformedBody == [readable |-> TRUE, json |-> FALSE, value |-> Nil]

Bodies ==
    {UnreadableBody, MalformedBody}
    \cup {Body(TRUE, <<>>, response, toolCalls, usage) :
            response \in {"", "Hello"},
            toolCalls \in {<<>>, WireCalls(<<ProviderCall("a", "f", "object", SimpleArgs)>>)},
            usage \in {Usage(0, 0), Usage(3, 5)}}
    \cup {Body(FALSE, errors, "Hello", toolCalls, Usage(3, 5)) :
            errors \in ProviderErrors,
            toolCalls \in {<<>>, WireCalls(<<ProviderCall("a", "f", "object", SimpleArgs)>>)}}

HTTPReplies ==
    {[err |-> [kind |-> "transport"], resp |-> Nil]}
    \cup {[err |-> Nil, resp |-> [StatusCode |-> status, body |-> body]] :
            status \in {200, 201, 500}, body \in Bodies}

InitHTTP ==
    /\ \/ /\ messages \in HTTPHistories
          /\ gen \in {HTTPGenerator(ModelLlama, DefaultBaseURL),
                      HTTPGenerator(ModelPhi, DefaultBaseURL)}
          /\ cb = FALSE
       \/ /\ messages \in {<<Message(RoleUser, <<NewTextPart("A")>>)>>}
          /\ gen \in {HTTPGenerator(model, baseURL) :
                        model \in Models, baseURL \in {DefaultBaseURL, InvalidBaseURL}}
          /\ cb \in BOOLEAN
    /\ tools = NilDefs
    /\ sent = <<>>
    /\ reply = Nil
    /\ modelResponse = Nil
    /\ gerr = Nil
    /\ gpc = "start"
    /\ chunks = <<>>
    /\ ctx = "live"
    /\ decodes = 0
    /\ clientMsgs = <<>>
    /\ cerr = Nil
    /\ redecoded = <<>>
    /\ epc = "idle"
    /\ DecodeIdle
    /\ TurnsIdle
    /\ PluginIdle

\* generate up to gen.client.Do(httpReq).
HTTPGenerateCall ==
    /\ IsHTTPGenerator(gen)
    /\ gpc = "start"
    /\ LET req == IF supportsChatFormat(gen.model)
                  THEN [Stream |-> cb, Messages |-> workersAIMessages(input.Messages),
                        Prompt |-> ""]
                  ELSE [Stream |-> cb, Messages |-> <<>>,
                        Prompt |-> buildPrompt(input.Messages)]
       IN  IF gen.baseURL = InvalidBaseURL
           THEN /\ gerr' = Wrap([kind |-> "url"], "failed to create request")
                /\ gpc' = "done"
                /\ UNCHANGED sent
           ELSE /\ sent' = Append(sent, [method |-> "POST",
                                         url |-> <<gen.baseURL, gen.accountID, gen.model>>,
                                         authorization |-> gen.apiToken,
                                         body |-> req])
                /\ gpc' = "called"
                /\ UNCHANGED gerr
    /\ UNCHANGED <<decodeVars, encodeVars, tools, reply, modelResponse, gen, cb, chunks,
                   ctx, decodes>>
    /\ UNCHANGED <<turnsVars, pluginVars>>

\* The HTTP client performs the request, which carries ctx, and returns: an
\* error when ctx is canceled, any reply otherwise.
ClientDo ==
    /\ IsHTTPGenerator(gen)
    /\ gpc = "called"
    /\ IF ctx = "canceled"
       THEN reply' = [err |-> [kind |-> "transport"], resp |-> Nil]
       ELSE reply' \in HTTPReplies
    /\ gpc' = "replied"
    /\ UNCHANGED <<decodeVars, encodeVars, tools, sent, modelResponse, gerr, gen, cb, chunks,
                   ctx, decodes>>
    /\ UNCHANGED <<turnsVars, pluginVars>>

\* Mutant: on a transport error sends the request once more.
HTTPGenerateReturn_Retry ==
    /\ IsHTTPGenerator(gen)
    /\ gpc = "replied"
    /\ IF reply.err # Nil /\ Len(sent) < 2
       THEN /\ sent' = Append(sent, sent[1])
            /\ gpc' = "called"
            /\ UNCHANGED <<modelResponse, gerr, chunks, decodes>>
       ELSE /\ gpc' = "done"
            /\ UNCHANGED sent
            /\ IF reply.err # Nil
               THEN /\ gerr' = Wrap(reply.err, "failed to make request")
                    /\ UNCHANGED <<modelResponse, chunks, decodes>>
               ELSE IF reply.resp.StatusCode # StatusOK
               THEN /\ gerr' = [kind |-> "status", status |-> reply.resp.StatusCode,
                                body |-> reply.resp.body]
                    /\ UNCHANGED <<modelResponse, chunks, decodes>>
               ELSE LET r == handleResponse(reply.resp, input)
                    IN  /\ modelResponse' = r.response
                        /\ gerr' = r.err
                        /\ decodes' = decodes + r.decodes
                        /\ UNCHANGED chunks
    /\ UNCHANGED <<decodeVars, encodeVars, tools, reply, gen, cb, ctx>>
    /\ UNCHANGED <<turnsVars, pluginVars>>

\* generate from the return of gen.client.Do to its own return.
HTTPGenerateReturn ==
    /\ IsHTTPGenerator(gen)
    /\ gpc = "replied"
    /\ gpc' = "done"
    /\ IF reply.err # Nil
       THEN /\ gerr' = Wrap(reply.err, "failed to make request")
            /\ UNCHANGED <<modelResponse, chunks, decodes>>
       ELSE IF reply.resp.StatusCode # StatusOK
       THEN /\ gerr' = [kind |-> "status", status |-> reply.resp.StatusCode,
                        body |-> reply.resp.body]
            /\ UNCHANGED <<modelResponse, chunks, decodes>>
       ELSE IF cb
       THEN LET s == handleStreamingResponse(reply.resp, cb, input)
            IN  /\ modelResponse' = s.result.response
                /\ gerr' = s.result.err
                /\ decodes' = decodes + s.result.decodes
                /\ chunks' = chunks \o s.delivered
       ELSE LET r == handleResponse(reply.resp, input)
            IN  /\ modelResponse' = r.response
                /\ gerr' = r.err
                /\ decodes' = decodes + r.decodes
                /\ UNCHANGED chunks
    /\ UNCHANGED <<decodeVars, encodeVars, tools, sent, reply, gen, cb, ctx>>
    /\ UNCHANGED <<turnsVars, pluginVars>>


NextHTTP == HTTPGenerateCall \/ ClientDo \/ HTTPGenerateReturn

SpecHTTP == InitHTTP /\ [][NextHTTP]_vars

(***************************************************************************)
(* One turn of either variant, with a caller that may cancel its context   *)
(* until the transport call has returned.                                   *)
(***************************************************************************)
Cancel ==
    /\ gpc \in {"start", "called"}
    /\ ctx = "live"
    /\ ctx' = "canceled"
    /\ UNCHANGED <<decodeVars, encodeVars, tools, sent, reply, modelResponse, gerr, gpc,
                   gen, cb, chunks, decodes>>
    /\ UNCHANGED <<turnsVars, pluginVars>>

InitTurn == InitGenerate \/ InitHTTP

NextTurn ==
    \/ GenerateCall
    \/ ChatWithTools
    \/ GenerateReturn
    \/ HTTPGenerateCall
    \/ ClientDo
    \/ HTTPGenerateReturn
    \/ Cancel

SpecTurn == InitTurn /\ [][NextTurn]_vars

(***************************************************************************)
(* generate as a function of the generator, the input, the callback and    *)
(* the transport's reply: what one call computes before and after the      *)
(* transport call.                                                         *)
(***************************************************************************)
\* Up to the transport call: the request, or the error generate returns
\* without calling the transport.
generateRequest(g, in, callback) ==
    IF IsClientGenerator(g)
    THEN LET t == toClientTools(in.Tools)
             m == toClientMessages(in.Messages)
         IN  IF t.err # Nil
             THEN [ok |-> FALSE, err |-> Wrap(t.err, "failed to convert tools"), req |-> Nil]
             ELSE IF m.err # Nil
             THEN [ok |-> FALSE, err |-> Wrap(m.err, "failed to convert messages"), req |-> Nil]
             ELSE [ok |-> TRUE, err |-> Nil,
                   req |-> [model |-> g.model, messages |-> m.msgs, tools |-> t.tools]]
    ELSE LET req == IF supportsChatFormat(g.model)
                    THEN [Stream |-> callback, Messages |-> workersAIMessages(in.Messages),
                          Prompt |-> ""]
                    ELSE [Stream |-> callback, Messages |-> <<>>,
                          Prompt |-> buildPrompt(in.Messages)]
         IN  IF g.baseURL = InvalidBaseURL
             THEN [ok |-> FALSE, err |-> Wrap([kind |-> "url"], "failed to create request"),
                   req |-> Nil]
             ELSE [ok |-> TRUE, err |-> Nil,
                   req |-> [method |-> "POST",
                            url |-> <<g.baseURL, g.accountID, g.model>>,
                            authorization |-> g.apiToken,
                            body |-> req]]

\* From the return of the transport call on.
generateResponse(g, rep, in, callback) ==
    IF IsClientGenerator(g)
    THEN IF rep.err # Nil
         THEN [response |-> Nil, err |-> Wrap(rep.err, "workersai client failed")]
         ELSE IF ~rep.resp.Success
         THEN [response |-> Nil, err |-> [kind |-> "api", errors |-> rep.resp.Errors]]
         ELSE LET resp == rep.resp
                  usage == IF resp.IsLegacyResult
                           THEN [InputTokens |-> resp.LegacyResponse.Usage.PromptTokens,
                                 OutputTokens |-> resp.LegacyResponse.Usage.CompletionTokens]
                           ELSE [InputTokens |-> resp.ChatCompletionResponse.Usage.PromptTokens,
                                 OutputTokens |->
                                     resp.ChatCompletionResponse.Usage.CompletionTokens]
                  r == toGenkitToolRequestParts(resp.ToolCalls)
              IN  IF Len(resp.ToolCalls) > 0
                  THEN (IF r.err # Nil THEN [response |-> Nil, err |-> r.err]
                        ELSE [response |-> [Request |-> in,
                                            Usage |-> usage,
                                            Message |-> Message(RoleModel, r.parts),
                                            FinishReason |-> "stop"],
                              err |-> Nil])
                  ELSE [response |-> [Request |-> in,
                                      Usage |-> usage,
                                      Message |-> Message(RoleModel,
                                                    <<NewTextPart(resp.Content)>>),
                                      FinishReason |-> "stop"],
                        err |-> Nil]
    ELSE IF rep.err # Nil
         THEN [response |-> Nil, err |-> Wrap(rep.err, "failed to make request")]
         ELSE IF rep.resp.StatusCode # StatusOK
         THEN [response |-> Nil,
               err |-> [kind |-> "status", status |-> rep.resp.StatusCode,
                        body |-> rep.resp.body]]
         ELSE LET r == IF callback
                       THEN handleStreamingResponse(rep.resp, callback, in).result
                       ELSE handleResponse(rep.resp, in)
              IN  [response |-> r.response, err |-> r.err]

\* One generate call run on its own.
generate(g, in, callback, rep) ==
    LET r == generateRequest(g, in, callback)
    IN  IF ~r.ok THEN [response |-> Nil, err |-> r.err]
        ELSE generateResponse(g, rep, in, callback)

\* The single-call actions and the function agree.
GenerateAgrees ==
    /\ (gpc \in {"called", "replied"} /\ Len(sent) = 1) =>
            generateRequest(gen, input, cb) = [ok |-> TRUE, err |-> Nil, req |-> sent[1]]
    /\ (gpc = "done" /\ reply = Nil) =>
            generateRequest(gen, input, cb) = [ok |-> FALSE, err |-> gerr, req |-> Nil]
    /\ (gpc = "done" /\ reply # Nil) =>
            generate(gen, input, cb, reply) = [response |-> modelResponse, err |-> gerr]

(***************************************************************************)
(* Concurrent generate calls on one generator.  Each caller is a goroutine *)
(* running generate with its own input and callback; the generator is the  *)
(* only value the calls share, and tsent is the order in which the         *)
(* transport saw their requests.                                           *)
(***************************************************************************)
Callers == 1..MaxCallers

ConcurrentGenerators ==
    {Generator, HTTPGenerator(ModelLlama, DefaultBaseURL),
     HTTPGenerator(ModelPhi, DefaultBaseURL)}

ConcurrentInputs ==
    { [input |-> [Messages |-> <<Message(RoleUser, <<NewTextPart("A")>>)>>,
                  Tools |-> NilDefs],
       cb |-> FALSE],
      [input |-> [Messages |-> <<Message(RoleModel, <<Request(CallA, IntArgs)>>),
                                 Message(RoleTool, <<Response(CallA, GoodOutput)>>)>>,
                  Tools |-> Defs(<<ToolDefinition("f", ObjectSchema)>>)],
       cb |-> TRUE],
      [input |-> [Messages |-> <<Message(RoleTool, <<Response(CallA, Chan)>>)>>,
                  Tools |-> NilDefs],
       cb |-> FALSE] }

ConcurrentReplies(g) ==
    IF IsClientGenerator(g)
    THEN { TransportFailure,
           Reply(TRUE, <<>>, FALSE, [legacy |-> Usage(3, 5), chat |-> Usage(7, 11)],
                 <<>>, "Hello"),
           Reply(TRUE, <<>>, TRUE, [legacy |-> Usage(3, 5), chat |-> Usage(7, 11)],
                 <<ProviderCall("a", "f", "object", SimpleArgs)>>, ""),
           Reply(FALSE, <<[Code |-> 1, Message |-> "e1"]>>, FALSE,
                 [legacy |-> Usage(0, 0), chat |-> Usage(0, 0)], <<>>, "") }
    ELSE { [err |-> [kind |-> "transport"], resp |-> Nil],
           [err |-> Nil,
            resp |-> [StatusCode |-> 200,
                      body |-> Body(TRUE, <<>>, "Hello", <<>>, Usage(3, 5))]],
           [err |-> Nil, resp |-> [StatusCode |-> 500, body |-> MalformedBody]],
           [err |-> Nil, resp |-> [StatusCode |-> 200, body |-> MalformedBody]] }

InitConcurrent ==
    /\ gen \in ConcurrentGenerators
    /\ tin \in [Callers -> ConcurrentInputs]
    /\ tpc = [c \in Callers |-> "start"]
    /\ treply = [c \in Callers |-> Nil]
    /\ tout = [c \in Callers |-> Nil]
    /\ tsent = <<>>
    /\ tools = NilDefs
    /\ sent = <<>>
    /\ reply = Nil
    /\ modelResponse = Nil
    /\ gerr = Nil
    /\ gpc = "idle"
    /\ cb = FALSE
    /\ chunks = <<>>
    /\ ctx = "live"
    /\ decodes = 0
    /\ DecodeIdle
    /\ EncodeIdle
    /\ PluginIdle

\* generate of caller c up to the transport call.
TurnCall(c) ==
    /\ tpc[c] = "start"
    /\ LET r == generateRequest(gen, tin[c].input, tin[c].cb)
       IN  IF r.ok
           THEN /\ tsent' = Append(tsent, [caller |-> c, req |-> r.req])
                /\ tpc' = [tpc EXCEPT ![c] = "called"]
                /\ tout' = tout
           ELSE /\ tout' = [tout EXCEPT ![c] = [response |-> Nil, err |-> r.err]]
                /\ tpc' = [tpc EXCEPT ![c] = "done"]
                /\ tsent' = tsent
    /\ UNCHANGED <<tin, treply>>
    /\ UNCHANGED <<tools, sent, reply, modelResponse, gerr, gpc, gen, cb, chunks, ctx, decodes>>
    /\ UNCHANGED <<decodeVars, encodeVars, pluginVars>>

\* The transport answers caller c.
TurnTransport(c) ==
    /\ tpc[c] = "called"
    /\ \E r \in ConcurrentReplies(gen) : treply' = [treply EXCEPT ![c] = r]
    /\ tpc' = [tpc EXCEPT ![c] = "replied"]
    /\ UNCHANGED <<tin, tout, tsent>>
    /\ UNCHANGED <<tools, sent, reply, modelResponse, gerr, gpc, gen, cb, chunks, ctx, decodes>>
    /\ UNCHANGED <<decodeVars, encodeVars, pluginVars>>

\* A generate that builds its response from the input of the call that
\* used the transport last.
TurnReturn_LastInput(c) ==
    /\ tpc[c] = "replied"
    /\ tout' = [tout EXCEPT ![c] =
                    generateResponse(gen, treply[c], tin[tsent[Len(tsent)].caller].input,
                                     tin[c].cb)]
    /\ tpc' = [tpc EXCEPT ![c] = "done"]
    /\ UNCHANGED <<tin, treply, tsent>>
    /\ UNCHANGED <<tools, sent, reply, modelResponse, gerr, gpc, gen, cb, chunks, ctx, decodes>>
    /\ UNCHANGED <<decodeVars, encodeVars, pluginVars>>

\* generate of caller c from the return of the transport call on.
TurnReturn(c) ==
    /\ tpc[c] = "replied"
    /\ tout' = [tout EXCEPT ![c] =
                    generateResponse(gen, treply[c], tin[c].input, tin[c].cb)]
    /\ tpc' = [tpc EXCEPT ![c] = "done"]
    /\ UNCHANGED <<tin, treply, tsent>>
    /\ UNCHANGED <<tools, sent, reply, modelResponse, gerr, gpc, gen, cb, chunks, ctx, decodes>>
    /\ UNCHANGED <<decodeVars, encodeVars, pluginVars>>

NextConcurrent ==
    \/ \E c \in Callers : TurnCall(c)
    \/ \E c \in Callers : TurnTransport(c)
    \/ \E c \in Callers : TurnReturn(c)

SpecConcurrent == InitConcurrent /\ [][NextConcurrent]_vars

(***************************************************************************)
(* The plugin value: WorkersAI.Init and WorkersAI.DefineModel called from  *)
(* several goroutines on one *WorkersAI.  mu is the plugin's sync.Mutex,   *)
(* initted its flag, plugin its other fields, registry what was handed to  *)
(* genkit.DefineModel.  ppc[p] is the call goroutine p makes, its position *)
(* and its locals; pres[p] is what the call returned.                      *)
(***************************************************************************)
Procs == 1..MaxProcs

Held(p) == [kind |-> "held", by |-> p]

AlreadyInitialized == [kind |-> "alreadyInitialized"]
MissingToken == [kind |-> "missingToken"]
MissingAccount == [kind |-> "missingAccount"]

\* The environment a call of Init finds: CLOUDFLARE_API_TOKEN and
\* CLOUDFLARE_ACCOUNT_ID.
Environments ==
    { [token |-> "tok", account |-> "acc"],
      [token |-> "", account |-> "acc"],
      [token |-> "tok", account |-> ""] }

\* The models Init registers (supportedWorkersAIModels, getKnownModels()).
KnownModelSets == { {}, {"k1"}, {"k1", "k2"} }

ClientPlugin(known) ==
    [variant |-> "client", APIToken |-> "", AccountID |-> "", BaseURL |-> "",
     client |-> Nil, known |-> known]

HTTPPlugin(token, account, known) ==
    [variant |-> "http", APIToken |-> token, AccountID |-> account, BaseURL |-> "",
     client |-> Nil, known |-> known]

Plugins ==
    {ClientPlugin(known) : known \in KnownModelSets}
    \cup {HTTPPlugin(c[1], c[2], known) :
            c \in {<<"", "">>, <<"cfgtok", "cfgacc">>}, known \in KnownModelSets}

InitCall(env) ==
    [op |-> "Init", pc |-> "start", env |-> env, name |-> "", wrote |-> {},
     apiToken |-> "", accountID |-> "", todo |-> {}, nested |-> ""]

DefineModelCall(name) ==
    [op |-> "DefineModel", pc |-> "start", env |-> [token |-> "", account |-> ""],
     name |-> name, wrote |-> {}, apiToken |-> "", accountID |-> "", todo |-> {},
     nested |-> ""]

PluginCalls == {InitCall(env) : env \in Environments} \cup {DefineModelCall("custom")}

InitPlugin ==
    /\ mu = Nil
    /\ initted = FALSE
    /\ plugin \in Plugins
    /\ registry = {}
    /\ ppc \in [Procs -> PluginCalls]
    /\ pres = [p \in Procs |-> Nil]
    /\ DecodeIdle
    /\ EncodeIdle
    /\ GenerateIdle
    /\ TurnsIdle

Returned(e) == [kind |-> "returned", err |-> e, initted |-> initted]
Panicked == [kind |-> "panic", err |-> Nil, initted |-> initted]

\* Init: w.mu.Lock().
InitLock(p) ==
    /\ ppc[p].op = "Init"
    /\ ppc[p].pc = "start"
    /\ mu = Nil
    /\ mu' = Held(p)
    /\ ppc' = [ppc EXCEPT ![p].pc = "locked"]
    /\ UNCHANGED <<initted, plugin, registry, pres>>
    /\ UNCHANGED <<decodeVars, encodeVars, generateVars, turnsVars>>

\* The credentials Init settles on: part_002 reads the environment, the HTTP
\* variant prefers the plugin's fields.
InitCredentials(p) ==
    IF plugin.variant = "client"
    THEN [token |-> ppc[p].env.token, account |-> ppc[p].env.account]
    ELSE [token |-> IF plugin.APIToken # "" THEN plugin.APIToken ELSE ppc[p].env.token,
          account |-> IF plugin.AccountID # "" THEN plugin.AccountID
                      ELSE ppc[p].env.account]

InitFailure(p, e) ==
    IF plugin.variant = "client" /\ e # AlreadyInitialized
    THEN Wrap(e, "WorkersAI.Init")
    ELSE e

\* Mutant: an Init that does not test w.initted.
InitCheck_NoInittedTest(p) ==
    /\ ppc[p].op = "Init"
    /\ ppc[p].pc = "locked"
    /\ LET c == InitCredentials(p)
           e == IF c.token = "" THEN MissingToken
                ELSE IF c.account = "" THEN MissingAccount
                ELSE Nil
       IN  IF e # Nil
           THEN /\ pres' = [pres EXCEPT ![p] = Returned(InitFailure(p, e))]
                /\ mu' = Nil
                /\ ppc' = [ppc EXCEPT ![p].pc = "done"]
           ELSE /\ ppc' = [ppc EXCEPT ![p].pc = "configure",
                                      ![p].apiToken = c.token,
                                      ![p].accountID = c.account]
                /\ UNCHANGED <<mu, pres>>
    /\ UNCHANGED <<initted, plugin, registry>>
    /\ UNCHANGED <<decodeVars, encodeVars, generateVars, turnsVars>>

\* Init from the test of w.initted to the last credentials test; a failing
\* test returns, and the deferred Unlock runs.
InitCheck(p) ==
    /\ ppc[p].op = "Init"
    /\ ppc[p].pc = "locked"
    /\ LET c == InitCredentials(p)
           e == IF initted THEN AlreadyInitialized
                ELSE IF c.token = "" THEN MissingToken
                ELSE IF c.account = "" THEN MissingAccount
                ELSE Nil
       IN  IF e # Nil
           THEN /\ pres' = [pres EXCEPT ![p] = Returned(InitFailure(p, e))]
                /\ mu' = Nil
                /\ ppc' = [ppc EXCEPT ![p].pc = "done"]
           ELSE /\ ppc' = [ppc EXCEPT ![p].pc = "configure",
                                      ![p].apiToken = c.token,
                                      ![p].accountID = c.account]
                /\ UNCHANGED <<mu, pres>>
    /\ UNCHANGED <<initted, plugin, registry>>
    /\ UNCHANGED <<decodeVars, encodeVars, generateVars, turnsVars>>

\* Init's writes to the plugin: the client and configuration fields, and
\* initted.  A goroutine that reads initted without the lock (DefineModel of
\* part_002) can see the two stores in either order.
InitWrite(p, f) ==
    /\ ppc[p].op = "Init"
    /\ ppc[p].pc = "configure"
    /\ f \in {"fields", "initted"} \ ppc[p].wrote
    /\ IF f = "initted"
       THEN /\ initted' = TRUE
            /\ plugin' = plugin
       ELSE /\ plugin' =
                  IF plugin.variant = "client"
                  THEN [plugin EXCEPT !.client = [accountID |-> ppc[p].accountID,
                                                 apiToken |-> ppc[p].apiToken]]
                  ELSE [plugin EXCEPT !.client = [kind |-> "httpClient"],
                                      !.APIToken = ppc[p].apiToken,
                                      !.AccountID = ppc[p].accountID,
                                      !.BaseURL = DefaultBaseURL]
            /\ initted' = initted
    /\ ppc' = [ppc EXCEPT ![p].wrote = ppc[p].wrote \cup {f},
                          ![p].pc = IF ppc[p].wrote \cup {f} = {"fields", "initted"}
                                    THEN "register" ELSE "configure",
                          ![p].todo = plugin.known]
    /\ UNCHANGED <<mu, registry, pres>>
    /\ UNCHANGED <<decodeVars, encodeVars, generateVars, turnsVars>>

\* One round of Init's loop over the known models: part_002 calls
\* w.defineModel, the HTTP variant calls w.DefineModel.
InitRegister(p) ==
    /\ ppc[p].op = "Init"
    /\ ppc[p].pc = "register"
    /\ \E name \in ppc[p].todo :
          IF plugin.variant = "client"
          THEN /\ registry' = registry \cup
                      {[name |-> name, by |-> "Init", client |-> plugin.client]}
               /\ ppc' = [ppc EXCEPT ![p].todo = ppc[p].todo \ {name}]
          ELSE /\ ppc' = [ppc EXCEPT ![p].pc = "defineModel", ![p].nested = name]
               /\ registry' = registry
    /\ UNCHANGED <<mu, initted, plugin, pres>>
    /\ UNCHANGED <<decodeVars, encodeVars, generateVars, turnsVars>>

\* Init returns nil after the loop; the deferred Unlock runs.
InitReturn(p) ==
    /\ ppc[p].op = "Init"
    /\ ppc[p].pc = "register"
    /\ ppc[p].todo = {}
    /\ pres' = [pres EXCEPT ![p] = Returned(Nil)]
    /\ mu' = Nil
    /\ ppc' = [ppc EXCEPT ![p].pc = "done"]
    /\ UNCHANGED <<initted, plugin, registry>>
    /\ UNCHANGED <<decodeVars, encodeVars, generateVars, turnsVars>>

\* DefineModel of part_002 reads w.initted before it takes the lock.  The
\* read races with Init's store: it gives the stored value, or false when
\* the store is not yet visible to this goroutine.
DefineModelRead(p) ==
    /\ plugin.variant = "client"
    /\ ppc[p].op = "DefineModel"
    /\ ppc[p].pc = "start"
    /\ \E read \in {initted, FALSE} :
          IF read
          THEN /\ ppc' = [ppc EXCEPT ![p].pc = "lock"]
               /\ pres' = pres
          ELSE /\ ppc' = [ppc EXCEPT ![p].pc = "done"]
               /\ pres' = [pres EXCEPT ![p] = Panicked]
    /\ UNCHANGED <<mu, initted, plugin, registry>>
    /\ UNCHANGED <<decodeVars, encodeVars, generateVars, turnsVars>>

\* DefineModel: w.mu.Lock().  In the HTTP variant it is the first statement,
\* also when Init is the caller (ppc[p].nested names the model).
DefineModelLock(p) ==
    /\ \/ plugin.variant = "client" /\ ppc[p].op = "DefineModel" /\ ppc[p].pc = "lock"
       \/ plugin.variant = "http" /\ ppc[p].op = "DefineModel" /\ ppc[p].pc = "start"
       \/ plugin.variant = "http" /\ ppc[p].op = "Init" /\ ppc[p].pc = "defineModel"
    /\ mu = Nil
    /\ mu' = Held(p)
    /\ ppc' = [ppc EXCEPT ![p].pc = "defining"]
    /\ UNCHANGED <<initted, plugin, registry, pres>>
    /\ UNCHANGED <<decodeVars, encodeVars, generateVars, turnsVars>>

\* DefineModel with the lock held: the HTTP variant tests w.initted here and
\* panics; then the generator is built and registered, and the deferred
\* Unlock runs.
DefineModelBody(p) ==
    /\ ppc[p].pc = "defining"
    /\ IF plugin.variant = "http" /\ ~initted
       THEN /\ pres' = [pres EXCEPT ![p] = Panicked]
            /\ ppc' = [ppc EXCEPT ![p].pc = "done"]
            /\ registry' = registry
       ELSE IF ppc[p].op = "Init"
       THEN /\ registry' = registry \cup
                   {[name |-> ppc[p].nested, by |-> "Init", client |-> plugin.client]}
            /\ ppc' = [ppc EXCEPT ![p].pc = "register",
                                  ![p].todo = ppc[p].todo \ {ppc[p].nested},
                                  ![p].nested = ""]
            /\ pres' = pres
       ELSE /\ registry' = registry \cup
                   {[name |-> ppc[p].name, by |-> "DefineModel", client |-> plugin.client]}
            /\ ppc' = [ppc EXCEPT ![p].pc = "done"]
            /\ pres' = [pres EXCEPT ![p] = Returned(Nil)]
    /\ mu' = Nil
    /\ UNCHANGED <<initted, plugin>>
    /\ UNCHANGED <<decodeVars, encodeVars, generateVars, turnsVars>>

NextPlugin ==
    \/ \E p \in Procs : InitLock(p)
    \/ \E p \in Procs : InitCheck(p)
    \/ \E p \in Procs : \E f \in {"fields", "initted"} : InitWrite(p, f)
    \/ \E p \in Procs : InitRegister(p)
    \/ \E p \in Procs : InitReturn(p)
    \/ \E p \in Procs : DefineModelRead(p)
    \/ \E p \in Procs : DefineModelLock(p)
    \/ \E p \in Procs : DefineModelBody(p)

SpecPlugin == InitPlugin /\ [][NextPlugin]_vars

\* The Go scheduler runs every runnable goroutine, and sync.Mutex hands the
\* lock to a goroutine that keeps waiting for it (starvation mode).
PluginFairness ==
    \A p \in Procs :
        /\ SF_vars(InitLock(p))
        /\ SF_vars(DefineModelLock(p))
        /\ WF_vars(InitCheck(p))
        /\ WF_vars(\E f \in {"fields", "initted"} : InitWrite(p, f))
        /\ WF_vars(InitRegister(p))
        /\ WF_vars(InitReturn(p))
        /\ WF_vars(DefineModelRead(p))
        /\ WF_vars(DefineModelBody(p))

SpecPluginLive == SpecPlugin /\ PluginFairness

(***************************************************************************)
(* Properties of a turn                                                    *)
(***************************************************************************)
\* The transport returned a reply of the provider that generate can read.
ReadableReply ==
    /\ reply # Nil
    /\ reply.err = Nil
    /\ IsHTTPGenerator(gen) => reply.resp.body.readable /\ reply.resp.body.json

\* What the provider's reply says, in either variant's representation.
ReplySuccess ==
    IF IsClientGenerator(gen) THEN reply.resp.Success ELSE reply.resp.body.value.success
ReplyErrors ==
    IF IsClientGenerator(gen) THEN reply.resp.Errors ELSE reply.resp.body.value.errors
ReplyToolCalls ==
    IF IsClientGenerator(gen) THEN reply.resp.ToolCalls
    ELSE reply.resp.body.value.result.tool_calls
ReplyText ==
    IF IsClientGenerator(gen) THEN reply.resp.Content
    ELSE reply.resp.body.value.result.response
ReplyUsage ==
    IF IsClientGenerator(gen)
    THEN (IF reply.resp.IsLegacyResult THEN reply.resp.LegacyResponse.Usage
          ELSE reply.resp.ChatCompletionResponse.Usage)
    ELSE reply.resp.body.value.result.usage

\* C14: when the provider's reply says success = false, generate returns an
\* error and no response, whatever text, tool calls and usage the reply
\* carries.
C14_FailureNeverAnswers ==
    (gpc = "done" /\ ReadableReply /\ ~ReplySuccess) =>
        /\ gerr # Nil
        /\ modelResponse = Nil

\* A reply with status 200, success = false, a text and a tool call made
\* generate fail.
C14_Witness ==
    /\ gpc = "done"
    /\ IsHTTPGenerator(gen)
    /\ ReadableReply
    /\ reply.resp.StatusCode = StatusOK
    /\ ~ReplySuccess
    /\ ReplyText # ""
    /\ ReplyToolCalls # <<>>
    /\ gerr # Nil
    /\ modelResponse = Nil

\* What the text of a returned error holds of the provider's errors list:
\* the client-library variant formats the whole list, the HTTP variant uses
\* the first entry's message as the error text.
CarriesCode(e, code) ==
    /\ e.kind = "api"
    /\ \E i \in 1..Len(e.errors) : e.errors[i].Code = code
CarriesMessage(e, message) ==
    \/ e.kind = "api" /\ \E i \in 1..Len(e.errors) : e.errors[i].Message = message
    \/ e.kind = "message" /\ e.errMsg = message
IsGenericFailure(e) ==
    \/ e.kind = "api" /\ e.errors = <<>>
    \/ e.kind = "message" /\ e.errMsg = "API request failed"

\* C15 (as claimed): the error returned for a success = false reply carries
\* the code and the message of the first entry of the errors list and
\* nothing of the later entries, and is a generic failure when the list is
\* empty.
C15_FirstError ==
    (gpc = "done" /\ ReadableReply /\ ~ReplySuccess
     /\ (IsHTTPGenerator(gen) => reply.resp.StatusCode = StatusOK)) =>
        IF ReplyErrors = <<>> THEN IsGenericFailure(gerr)
        ELSE /\ CarriesCode(gerr, ReplyErrors[1].Code)
             /\ CarriesMessage(gerr, ReplyErrors[1].Message)
             /\ \A i \in 2..Len(ReplyErrors) :
                  /\ ~CarriesCode(gerr, ReplyErrors[i].Code)
                  /\ ~CarriesMessage(gerr, ReplyErrors[i].Message)

\* C16 (as claimed): the content of a returned response is the list of the
\* reply's tool calls as tool-request parts (ref = id, name = function name)
\* and no text part when the reply has tool calls, and exactly one text
\* part carrying the reply's text otherwise; it is never empty.
C16_ExclusiveContent ==
    (gpc = "done" /\ modelResponse # Nil) =>
        LET content == modelResponse.Message.Content
        IN  /\ content # <<>>
            /\ IF ReplyToolCalls # <<>>
               THEN /\ Len(content) = Len(ReplyToolCalls)
                    /\ \A i \in 1..Len(content) :
                         /\ content[i].kind = "toolRequest"
                         /\ content[i].ToolRequest.Ref = ReplyToolCalls[i].ID
                         /\ content[i].ToolRequest.Name = ReplyToolCalls[i].Function.Name
               ELSE content = <<NewTextPart(ReplyText)>>

\* C17 (as claimed): a returned response has role model, finish reason
\* stop, the request in its Request field, and as usage the token counts the
\* provider reported (zero when it reported none).
C17_ResponseEnvelope ==
    (gpc = "done" /\ modelResponse # Nil) =>
        /\ modelResponse.Message.Role = RoleModel
        /\ modelResponse.FinishReason = "stop"
        /\ modelResponse.Request = [Messages |-> messages, Tools |-> tools]
        /\ modelResponse.Usage = [InputTokens |-> ReplyUsage.PromptTokens,
                                  OutputTokens |-> ReplyUsage.CompletionTokens]

\* The response generate returns for the reply at hand when it is called
\* without a callback: the non-streaming branch of the HTTP variant, the
\* classification of the client-library variant.
NoCallbackResponse ==
    IF IsHTTPGenerator(gen) THEN handleResponse(reply.resp, input).response
    ELSE IF ~reply.resp.Success THEN Nil
    ELSE IF ReplyToolCalls # <<>>
    THEN (IF toGenkitToolRequestParts(ReplyToolCalls).err # Nil THEN Nil
          ELSE [Request |-> input,
                Usage |-> [InputTokens |-> ReplyUsage.PromptTokens,
                           OutputTokens |-> ReplyUsage.CompletionTokens],
                Message |-> Message(RoleModel, toGenkitToolRequestParts(ReplyToolCalls).parts),
                FinishReason |-> "stop"])
    ELSE [Request |-> input,
          Usage |-> [InputTokens |-> ReplyUsage.PromptTokens,
                     OutputTokens |-> ReplyUsage.CompletionTokens],
          Message |-> Message(RoleModel, <<NewTextPart(ReplyText)>>),
          FinishReason |-> "stop"]

\* C18: when the caller supplies a callback, no chunk is ever delivered to
\* it, the reply is decoded at most once and exactly once when a response
\* is returned, and the response is the one returned for the same reply
\* without a callback.
C18_CallbackNeverInvoked ==
    cb =>
        /\ chunks = <<>>
        /\ decodes <= 1
        /\ (gpc = "done" /\ modelResponse # Nil) => decodes = 1
        /\ (gpc = "done" /\ reply # Nil /\ reply.err = Nil
            /\ (IsHTTPGenerator(gen) => reply.resp.StatusCode = StatusOK)) =>
                modelResponse = NoCallbackResponse

\* A caller with a callback got a response from the HTTP variant, whose
\* request had asked the provider to stream.
C18_Witness ==
    /\ cb
    /\ gpc = "done"
    /\ IsHTTPGenerator(gen)
    /\ Len(sent) = 1
    /\ sent[1].body.Stream
    /\ modelResponse # Nil
    /\ modelResponse.Message.Content = <<NewTextPart("Hello")>>
    /\ chunks = <<>>
    /\ decodes = 1

\* C19 (as claimed): when the caller's context is canceled before the
\* transport call returns, generate returns the transport's error and no
\* response.
C19_CancelIsTransportError ==
    (gpc = "done" /\ ctx = "canceled" /\ Len(sent) = 1) =>
        /\ gerr.kind = "wrapped"
        /\ gerr.cause.kind = "transport"
        /\ modelResponse = Nil

\* C20: the transport is invoked at most once in a generate call, and
\* exactly once in every call in which it returned anything.
C20_NoRetry ==
    /\ Len(sent) <= 1
    /\ reply # Nil => Len(sent) = 1
    /\ (gpc = "done" /\ Len(sent) = 1) => reply # Nil

\* generate returned the transport's error after one invocation.
C20_Witness ==
    /\ gpc = "done"
    /\ IsHTTPGenerator(gen)
    /\ reply # Nil
    /\ reply.err # Nil
    /\ gerr = Wrap(reply.err, "failed to make request")
    /\ Len(sent) = 1

\* A character in lower case, for the upper-case letters that occur in Models.
LowerChar(c) == IF c = "L" THEN "l" ELSE c
ToLower(str) == [i \in 1..Len(str) |-> LowerChar(str[i])]

\* The identifier contains a known family name, compared case-insensitively.
KnownFamily(model) ==
    \E family \in {<<"l", "l", "a", "m", "a">>, <<"m", "i", "s", "t", "r", "a", "l">>,
                     <<"q", "w", "e", "n">>, <<"g", "e", "m", "m", "a">>} :
        Contains(ToLower(model), family)

\* Messages of the history whose concatenated text is not empty.
TextTurnsOf(msgs) == SelectSeq(msgs, LAMBDA m : concatenateTextParts(m.Content) # "")

\* C21 (as claimed): the request of the HTTP variant carries a messages
\* list (one entry per message with text) and no prompt when the model
\* identifier contains llama, mistral, qwen or gemma in any letter case, and
\* a prompt and no messages list otherwise.
C21_EncodingByFamily ==
    (IsHTTPGenerator(gen) /\ Len(sent) = 1) =>
        IF KnownFamily(gen.model)
        THEN /\ Len(sent[1].body.Messages) = Len(TextTurnsOf(messages))
             /\ sent[1].body.Prompt = ""
        ELSE /\ sent[1].body.Messages = <<>>
             /\ (\E i \in 1..Len(messages) :
                    /\ messages[i].Role \in {RoleSystem, RoleUser, RoleModel}
                    /\ concatenateTextParts(messages[i].Content) # "") =>
                        sent[1].body.Prompt # ""

\* The line the flattened prompt holds for one message.
PromptLabels == [system |-> "System", user |-> "User", model |-> "Assistant"]
PromptLine(msg) ==
    IF msg.Role \in DOMAIN PromptLabels /\ PartsText(msg.Content) # ""
    THEN PromptLabels[msg.Role] \o ": " \o PartsText(msg.Content) \o "\n"
    ELSE ""

RECURSIVE JoinLines(_)
JoinLines(msgs) == IF msgs = <<>> THEN "" ELSE PromptLine(Head(msgs)) \o JoinLines(Tail(msgs))

\* C22: for a model outside the known families the prompt of the request
\* is the concatenation, in history order, of "<Label>: <text>\n" for each
\* system, user or model message with non-empty text; messages with empty
\* text and tool-role messages contribute nothing.
C22_FlattenedPrompt ==
    (IsHTTPGenerator(gen) /\ Len(sent) = 1 /\ ~supportsChatFormat(gen.model)) =>
        /\ sent[1].body.Prompt = JoinLines(messages)
        /\ \A i \in 1..Len(messages) :
             (messages[i].Role = RoleTool \/ PartsText(messages[i].Content) = "") =>
                sent[1].body.Prompt =
                    JoinLines(SubSeq(messages, 1, i - 1) \o SubSeq(messages, i + 1, Len(messages)))

\* A model turn with two texts followed by a tool turn with text was
\* flattened to the one line of the model turn.
C22_Witness ==
    /\ IsHTTPGenerator(gen)
    /\ Len(sent) = 1
    /\ Len(messages) = 2
    /\ messages[1].Role = RoleModel
    /\ messages[2] = Message(RoleTool, <<NewTextPart("A")>>)
    /\ sent[1].body.Prompt = "Assistant: AB\n"
    /\ sent[1].body.Messages = <<>>

\* C23 (as claimed): the failure of a reply is decided by the first of these
\* that applies: a status outside 200..299 fails with the status and the
\* raw body, without decoding the body; a body that is not JSON fails with a
\* parse error; success = false fails with the provider's error; otherwise
\* the turn succeeds.
C23_FailureOrder ==
    (IsHTTPGenerator(gen) /\ gpc = "done" /\ reply # Nil /\ reply.err = Nil
     /\ reply.resp.body.readable) =>
        IF reply.resp.StatusCode \notin 200..299
        THEN /\ gerr.kind = "status"
             /\ gerr.body = reply.resp.body
             /\ modelResponse = Nil
             /\ decodes = 0
        ELSE IF ~reply.resp.body.json
        THEN /\ gerr.kind = "wrapped"
             /\ gerr.cause.kind = "syntax"
             /\ modelResponse = Nil
        ELSE IF ~reply.resp.body.value.success
        THEN /\ gerr.kind = "message"
             /\ modelResponse = Nil
        ELSE /\ gerr = Nil
             /\ modelResponse # Nil

HasUnmatchedResponse(msgs) ==
    \E i \in 1..Len(msgs) :
        /\ msgs[i].Role = RoleTool
        /\ \E p \in 1..Len(msgs[i].Content) :
             /\ msgs[i].Content[p].kind = "toolResponse"
             /\ ~\E j \in 1..(i - 1) :
                   /\ msgs[j].Role = RoleModel
                   /\ \E q \in 1..Len(msgs[j].Content) :
                        /\ msgs[j].Content[q].kind = "toolRequest"
                        /\ msgs[j].Content[q].ToolRequest.Ref =
                               msgs[i].Content[p].ToolResponse.Ref

\* C25 (as claimed): toClientMessages fails with "could not find
\* tool_call_id for tool response" on a history with a tool response that no
\* earlier model tool request matches, and every tool-result message it
\* emits carries the id of a tool call emitted before it.
C25_UnmatchedResponseFails ==
    Encoded =>
        /\ HasUnmatchedResponse(messages) =>
              (cerr # Nil /\ cerr.kind = "toolCallIDNotFound")
        /\ \A n \in 1..Len(clientMsgs) :
              clientMsgs[n].type = "ToolMessage" =>
                 \E k \in 1..(n - 1) :
                    /\ clientMsgs[k].type = "ResponseMessage"
                    /\ \E c \in 1..Len(clientMsgs[k].ToolCalls) :
                          clientMsgs[k].ToolCalls[c].ID = clientMsgs[n].ToolCallID

\* Goroutine p calls Init with an API token and an account id available, on
\* a plugin that has at least one known model.
InitCallWithCredentials(p) ==
    /\ ppc[p].op = "Init"
    /\ InitCredentials(p).token # ""
    /\ InitCredentials(p).account # ""
    /\ plugin.known # {}

\* C26 (as claimed): every call of Init with an API token and an account id
\* available and at least one known model eventually returns.
C26_InitReturns ==
    \A p \in Procs : InitCallWithCredentials(p) ~> (ppc[p].pc = "done")

InitDone(p) == ppc[p].op = "Init" /\ ppc[p].pc = "done" /\ pres[p].kind = "returned"
InitSucceeded(p) == InitDone(p) /\ pres[p].err = Nil
InitLacksCredentials(p) ==
    /\ InitDone(p)
    /\ pres[p].err \in {MissingToken, MissingAccount,
                         Wrap(MissingToken, "WorkersAI.Init"),
                         Wrap(MissingAccount, "WorkersAI.Init")}
InitRefused(p) == InitDone(p) /\ pres[p].err = AlreadyInitialized
DefineModelDone(p) == ppc[p].op = "DefineModel" /\ ppc[p].pc = "done"

\* C27: under every interleaving of Init and DefineModel calls on one plugin
\* value, at most one Init returns nil; initted never goes back to false
\* (so it becomes true at most once); an Init that fails for missing
\* credentials has written nothing to the plugin and returns with initted
\* false; an Init that tests initted after an Init has succeeded returns the
\* already-initialized error and changes nothing; and DefineModel registers
\* a model only after an Init has succeeded and panics otherwise.
C27_InitOnce ==
    /\ [](/\ Cardinality({p \in DOMAIN ppc : InitSucceeded(p)}) <= 1
          /\ \A p \in DOMAIN ppc :
                /\ InitLacksCredentials(p) => (ppc[p].wrote = {} /\ ~pres[p].initted)
                /\ InitRefused(p) => ppc[p].wrote = {}
                /\ DefineModelDone(p) =>
                      IF \E q \in DOMAIN ppc : InitSucceeded(q)
                      THEN pres[p].kind \in {"returned", "panic"}
                      ELSE pres[p].kind = "panic"
          /\ \A r \in registry :
                /\ r.client # Nil
                /\ r.by = "DefineModel" => \E q \in DOMAIN ppc : InitSucceeded(q))
    /\ [][initted => initted']_vars
    /\ [][\A p \in DOMAIN ppc :
            (/\ ppc[p].op = "Init"
             /\ ppc[p].pc = "locked"
             /\ ppc'[p].pc # "locked"
             /\ \E q \in DOMAIN ppc : InitSucceeded(q))
            => (/\ pres'[p].kind = "returned"
                /\ pres'[p].err = AlreadyInitialized
                /\ UNCHANGED <<initted, plugin, registry>>)]_vars

\* One Init succeeded, a second Init was refused as already initialized, and
\* the plugin is initialized.
C27_Witness ==
    /\ DOMAIN ppc = Procs
    /\ initted
    /\ \E p \in Procs : InitSucceeded(p)
    /\ \E p \in Procs : InitRefused(p)

\* A conversion generate makes before the transport call fails on this input.
ConversionFails ==
    /\ IsClientGenerator(gen)
    /\ \/ ~ConvertibleTools
       \/ UnencodableOutputs # <<>>
       \/ UnencodableInputs

\* The request the transport was handed carries the converted tools and
\* history.
SentIsConverted ==
    IF IsClientGenerator(gen)
    THEN /\ toClientTools(tools).err = Nil
         /\ toClientMessages(messages).err = Nil
         /\ sent[1].tools = toClientTools(tools).tools
         /\ sent[1].messages = toClientMessages(messages).msgs
    ELSE IF supportsChatFormat(gen.model)
    THEN sent[1].body.Messages = workersAIMessages(messages)
    ELSE sent[1].body.Prompt = buildPrompt(messages)

HasValueObjectArgument(inputValue) ==
    /\ inputValue.k = "obj"
    /\ \E key \in DOMAIN inputValue.m :
          /\ inputValue.m[key].k = "obj"
          /\ "value" \in DOMAIN inputValue.m[key].m

\* C29 (as claimed): every tool-request part whose input is a JSON object,
\* encoded by toClientMessages and decoded again by
\* toGenkitToolRequestParts, comes back with the same input map (as JSON
\* reads it back), also when an argument is an object with a "value" member.
C29_InputRoundTrip ==
    epc = "done" =>
        /\ Len(redecoded) = Len(ToolTurns)
        /\ \A j \in 1..Len(ToolTurns) :
             LET reqs == ToolRequestsOf(ToolTurns[j])
             IN  /\ redecoded[j].err = Nil
                 /\ Len(redecoded[j].parts) = Len(reqs)
                 /\ \A i \in 1..Len(reqs) :
                      reqs[i].ToolRequest.Input.k = "obj" =>
                         redecoded[j].parts[i].ToolRequest.Input =
                            AsDecoded(reqs[i].ToolRequest.Input)

\* C30: on every path generate returns exactly one of a response and an
\* error, never both and never neither, and a returned response has a
\* message with at least one part.
C30_ResponseXorError ==
    /\ ~(modelResponse # Nil /\ gerr # Nil)
    /\ gpc = "done" => (modelResponse # Nil \/ gerr # Nil)
    /\ modelResponse # Nil =>
          /\ gpc = "done"
          /\ modelResponse.Message # Nil
          /\ Len(modelResponse.Message.Content) >= 1

\* The provider answered with success, no tool call and an empty text:
\* generate returned a response whose message is one empty text part.
C30_Witness ==
    /\ gpc = "done"
    /\ IsClientGenerator(gen)
    /\ ReadableReply
    /\ ReplySuccess
    /\ ReplyToolCalls = <<>>
    /\ ReplyText = ""
    /\ gerr = Nil
    /\ modelResponse # Nil
    /\ modelResponse.Message.Content = <<NewTextPart("")>>

\* C6 (as claimed): the role of every wire message is the provider token of
\* the canonical role it was built from: user -> "user", model ->
\* "assistant", system -> "system", tool -> "tool", any other role -> "user".
C6_RoleTable ==
    (gpc # "start" /\ Len(sent) = 1 /\ supportsChatFormat(gen.model)) =>
        LET turns == SelectSeq(messages, LAMBDA m : concatenateTextParts(m.Content) # "")
            wire == sent[1].body.Messages
        IN  /\ Len(wire) = Len(turns)
            /\ \A j \in 1..Len(turns) :
                 wire[j].Role = CASE turns[j].Role = RoleUser -> "user"
                                  [] turns[j].Role = RoleModel -> "assistant"
                                  [] turns[j].Role = RoleSystem -> "system"
                                  [] turns[j].Role = RoleTool -> "tool"
                                  [] OTHER -> "user"

====
